---- MODULE Spec2Model ----
(***************************************************************************)
(* Model of the referee-report worker (src/src/index.ts): the form         *)
(* validator, the report generator with its asset fetches, the status      *)
(* reporter with its process-wide cache, and the HTTP routes that call     *)
(* them.                                                                   *)
(*                                                                         *)
(* Text values are sequences of one-character strings, so that trimming    *)
(* and the two regular expressions are computed character by character.    *)
(* The value `undefined' of an absent field is the sentinel Undefined.     *)
(***************************************************************************)
EXTENDS Integers, Sequences, FiniteSets, TLC

VARIABLES
    request,             \* the HTTP request of the handler call under way
    formData,            \* the parsed request body of the POST under way
    pc,                  \* position of the POST handler / of generateReport
    validationError,     \* what validateFormData returned (NotRun before)
    fetches,             \* asset paths fetched by report generation, in order
    doc,                 \* the PDF library's document of the generation under way
    thrown,              \* the Error thrown by the generation under way (None if none)
    response,            \* the HTTP response of the POST (None before)
    clock,               \* Date.now()
    ticks,               \* number of clock advances so far
    cachedSystemStatus,  \* process-wide cached snapshot (Null if none)
    lastStatusCheck,     \* process-wide refresh time
    req                  \* the /api/status requests: position and locals of each

vars == <<request, formData, pc, validationError, fetches, doc, thrown, response,
          clock, ticks, cachedSystemStatus, lastStatusCheck, req>>

postVars == <<request, formData, pc, validationError, fetches, doc, thrown, response>>
statusVars == <<clock, ticks, cachedSystemStatus, lastStatusCheck, req>>

-----------------------------------------------------------------------------
(* Bounds *)

\* status requests that can be under way at once
MaxReqs == 1
\* clock advances in one behaviour
MaxTicks == 2
\* asset fetches of one status check, and canned generations of one
\* autotest, that do not deliver the released file or a well-formed PDF
MaxFaulty == 1

Reqs == 1..MaxReqs

-----------------------------------------------------------------------------
(* Text *)

Undefined == <<"undefined">>
Null == <<"null">>
None == <<"none">>
NotRun == <<"not run">>

Digit == {"0", "1", "2", "3", "4", "5", "6", "7", "8", "9"}
WhiteSpace == {" ", "\t", "\n"}

\* !v for a string or undefined: undefined and "" are falsy
Falsy(v) == v = Undefined \/ v = <<>>

RECURSIVE TrimStart(_)
TrimStart(s) ==
    IF s # <<>> /\ Head(s) \in WhiteSpace THEN TrimStart(Tail(s)) ELSE s

RECURSIVE TrimEnd(_)
TrimEnd(s) ==
    IF s # <<>> /\ s[Len(s)] \in WhiteSpace
    THEN TrimEnd(SubSeq(s, 1, Len(s) - 1)) ELSE s

\* String.prototype.trim
Trim(s) == TrimEnd(TrimStart(s))

\* Array.prototype.includes
Includes(arr, v) == \E i \in 1..Len(arr) : arr[i] = v

-----------------------------------------------------------------------------
(* Registry *)

Ilfov == <<"I", "l", "f", "o", "v">>
frf == <<"f", "r", "f">>

U9 == <<"U", "9">>
U11 == <<"U", "1", "1">>
U12 == <<"U", "1", "2">>
U13 == <<"U", "1", "3">>
U14 == <<"U", "1", "4">>
U15 == <<"U", "1", "5">>
U16 == <<"U", "1", "6">>
U17 == <<"U", "1", "7">>
U17F == <<"U", "1", "7", "F">>
LIGA2 == <<"L", "I", "G", "A", "2">>
LIGA3 == <<"L", "I", "G", "A", "3">>
LIGAT == <<"L", "I", "G", "A", "T">>
CN == <<"C", "N">>

SUPPORTED_LOCALITIES == <<Ilfov, frf>>

\* An object literal is the sequence of its entries, in declaration order.
\* A file name or a path is a text too (its characters are never inspected,
\* so it is written in one piece).
Entry(k, v) == [key |-> k, value |-> v]

\* Object.keys
Keys(obj) == [i \in 1..Len(obj) |-> obj[i].key]

HasKey(obj, k) == \E i \in 1..Len(obj) : obj[i].key = k

\* obj[k]: the entry's value, undefined when there is none
Get(obj, k) ==
    IF HasKey(obj, k)
    THEN obj[CHOOSE i \in 1..Len(obj) : obj[i].key = k].value
    ELSE Undefined

LOCALITY_TEMPLATES ==
    << Entry(Ilfov, << Entry(U9, <<"referee_template_u9.pdf">>),
                       Entry(U11, <<"referee_template_u11.pdf">>),
                       Entry(U13, <<"referee_template_u13.pdf">>),
                       Entry(U15, <<"referee_template_u15.pdf">>) >>),
       Entry(frf, << Entry(U11, <<"referee_template-Interliga-U11.pdf">>),
                     Entry(U12, <<"referee_template-Interliga-U12.pdf">>),
                     Entry(U13, <<"referee_template-liga-elitelor_U13.pdf">>),
                     Entry(U14, <<"referee_template-liga-elitelor_U14.pdf">>),
                     Entry(U15, <<"referee_template-liga-elitelor_U15.pdf">>),
                     Entry(U16, <<"referee_template-liga-elitelor_U16.pdf">>),
                     Entry(U17, <<"referee_template-liga-elitelor_U17.pdf">>),
                     Entry(U17F, <<"referee_template-liga-elitelor_U17 feminin.pdf">>),
                     Entry(LIGA2, <<"referee_template-liga-2.pdf">>),
                     Entry(LIGA3, <<"referee_template-liga-3.pdf">>),
                     Entry(LIGAT, <<"referee_template-liga-de-Tineret.pdf">>),
                     Entry(CN, <<"referee_template-campionate-nationale.pdf">>) >>) >>

\* `/reports/${locality}/${filename}`
TemplatePath(locality, filename) ==
    <<"/reports/">> \o locality \o <<"/">> \o filename

\* '/fonts/Roboto-Medium.ttf'
fontPath ==
    <<"/", "f", "o", "n", "t", "s", "/", "R", "o", "b", "o", "t", "o", "-",
      "M", "e", "d", "i", "u", "m", ".", "t", "t", "f">>

-----------------------------------------------------------------------------
(* HTTP: the request, and the CORS headers of every response *)

\* String.prototype.startsWith, endsWith, includes
StartsWith(s, pre) == Len(pre) <= Len(s) /\ SubSeq(s, 1, Len(pre)) = pre

EndsWith(s, suf) ==
    Len(suf) <= Len(s) /\ SubSeq(s, Len(s) - Len(suf) + 1, Len(s)) = suf

IncludesText(s, sub) ==
    \E i \in 1..(Len(s) - Len(sub) + 1) : SubSeq(s, i, i + Len(sub) - 1) = sub

\* 'https://'
HttpsScheme ==
    <<"h", "t", "t", "p", "s", ":", "/", "/">>

\* 'https://ref-tool-frontend.pages.dev'
PagesProject ==
    <<"h", "t", "t", "p", "s", ":", "/", "/", "r", "e", "f", "-", "t", "o",
      "o", "l", "-", "f", "r", "o", "n", "t", "e", "n", "d", ".", "p", "a",
      "g", "e", "s", ".", "d", "e", "v">>

\* 'https://rapoarte.cristeavictor.xyz'
ReportsSite ==
    <<"h", "t", "t", "p", "s", ":", "/", "/", "r", "a", "p", "o", "a", "r",
      "t", "e", ".", "c", "r", "i", "s", "t", "e", "a", "v", "i", "c", "t",
      "o", "r", ".", "x", "y", "z">>

\* 'http://localhost:4321'
LocalDev ==
    <<"h", "t", "t", "p", ":", "/", "/", "l", "o", "c", "a", "l", "h", "o",
      "s", "t", ":", "4", "3", "2", "1">>

\* 'http://localhost:8787'
WranglerDev ==
    <<"h", "t", "t", "p", ":", "/", "/", "l", "o", "c", "a", "l", "h", "o",
      "s", "t", ":", "8", "7", "8", "7">>

\* '.ref-tool-frontend.pages.dev'
PagesPreviewSuffix ==
    <<".", "r", "e", "f", "-", "t", "o", "o", "l", "-", "f", "r", "o", "n",
      "t", "e", "n", "d", ".", "p", "a", "g", "e", "s", ".", "d", "e", "v">>

\* '.pages.dev'
PagesSuffix ==
    <<".", "p", "a", "g", "e", "s", ".", "d", "e", "v">>

\* 'ref-tool-frontend'
ProjectName ==
    <<"r", "e", "f", "-", "t", "o", "o", "l", "-", "f", "r", "o", "n", "t",
      "e", "n", "d">>

\* '.cristeavictor.xyz'
SiteSuffix ==
    <<".", "c", "r", "i", "s", "t", "e", "a", "v", "i", "c", "t", "o", "r",
      ".", "x", "y", "z">>

\* 'https://cristeavictor.xyz'
SiteApex ==
    <<"h", "t", "t", "p", "s", ":", "/", "/", "c", "r", "i", "s", "t", "e",
      "a", "v", "i", "c", "t", "o", "r", ".", "x", "y", "z">>

allowedOrigins == <<PagesProject, ReportsSite, LocalDev, WranglerDev>>

\* request.headers.get('Origin') || ''
OriginOf(rq) == IF rq.origin = Null \/ Falsy(rq.origin) THEN <<>> ELSE rq.origin

\* a variant that lets every https origin in
isAllowedAnyHttps(origin) == StartsWith(origin, HttpsScheme)

\* const isAllowed = ...
isAllowed(origin) ==
    \/ Includes(allowedOrigins, origin)
    \/ (EndsWith(origin, PagesPreviewSuffix) /\ StartsWith(origin, HttpsScheme))
    \/ (EndsWith(origin, PagesSuffix) /\ IncludesText(origin, ProjectName))
    \/ (EndsWith(origin, SiteSuffix) /\ StartsWith(origin, HttpsScheme))
    \/ origin = SiteApex

AllowMethods == Entry("Access-Control-Allow-Methods", <<"GET, POST, OPTIONS">>)
AllowHeaders == Entry("Access-Control-Allow-Headers", <<"Content-Type">>)

\* corsHeaders, Access-Control-Allow-Origin being set only if isAllowed
corsHeaders(origin) ==
    <<AllowMethods, AllowHeaders>>
        \o (IF isAllowed(origin)
            THEN <<Entry("Access-Control-Allow-Origin", origin)>> ELSE <<>>)

\* the request of the handler call under way; origin is Null when the
\* request has no Origin header, refresh is "" when the URL has no such
\* parameter
Request(method, pathname, origin, refresh) ==
    [method |-> method, pathname |-> pathname, origin |-> origin,
     refresh |-> refresh]

\* POST /api/generate-report without an Origin header
PostGenerate == Request("POST", "/api/generate-report", Null, "")

-----------------------------------------------------------------------------
(* Form validator *)

required == <<"referee_name_1", "match_date", "starting_hour", "team_1",
              "team_2", "age_category", "locality">>

validCategories == <<U9, U11, U12, U13, U14, U15, U16, U17, U17F,
                     LIGA2, LIGA3, LIGAT, CN>>

\* /^\d{4}-\d{2}-\d{2}$/.test(s)
dateRegex(s) ==
    /\ Len(s) = 10
    /\ \A i \in {1, 2, 3, 4, 6, 7, 9, 10} : s[i] \in Digit
    /\ s[5] = "-" /\ s[8] = "-"

\* a variant that also wants an hour below 24 and a minute below 60
timeRegexRanged(s) ==
    /\ Len(s) = 5
    /\ \A i \in {1, 2, 4, 5} : s[i] \in Digit
    /\ s[3] = ":"
    /\ s[1] \in {"0", "1", "2"} /\ s[4] \in {"0", "1", "2", "3", "4", "5"}

\* /^\d{2}:\d{2}$/.test(s)
timeRegex(s) ==
    /\ Len(s) = 5
    /\ \A i \in {1, 2, 4, 5} : s[i] \in Digit
    /\ s[3] = ":"

\* the loop over `required': the fields that fail the presence test
MissingRequired(fd) ==
    {i \in 1..Len(required) :
        Falsy(fd[required[i]]) \/ Trim(fd[required[i]]) = <<>>}

\* a variant that asks for the second referee for U11 only
NeedsSecondRefereeU11Only(fd) ==
    /\ fd.age_category = U11
    /\ (Falsy(fd.referee_name_2) \/ Trim(fd.referee_name_2) = <<>>)

\* the second-referee test of validateFormData
NeedsSecondReferee(fd) ==
    /\ (fd.age_category = U11 \/ fd.age_category = U13)
    /\ (Falsy(fd.referee_name_2) \/ Trim(fd.referee_name_2) = <<>>)

\* a variant that does not look the category up in the table
CategoryUnsupportedNoTableCheck(fd) ==
    Get(LOCALITY_TEMPLATES, fd.locality) = Undefined

\* the locality-supports-category test of validateFormData
CategoryUnsupported(fd) ==
    LET localityTemplates == Get(LOCALITY_TEMPLATES, fd.locality)
    IN  \/ localityTemplates = Undefined
        \/ Falsy(Get(localityTemplates, fd.age_category))

\* a variant that tests the formats in the other order
validateFormDataDateLast(fd) ==
    IF MissingRequired(fd) # {}
    THEN LET i == CHOOSE j \in MissingRequired(fd) :
                      \A k \in MissingRequired(fd) : j <= k
         IN  <<"Missing required field: ", required[i]>>
    ELSE IF ~Includes(validCategories, fd.age_category)
    THEN <<"Invalid age category. Must be one of: ", validCategories>>
    ELSE IF ~Includes(SUPPORTED_LOCALITIES, fd.locality)
    THEN <<"Invalid locality. Must be one of: ", SUPPORTED_LOCALITIES>>
    ELSE IF CategoryUnsupported(fd)
    THEN LET localityTemplates == Get(LOCALITY_TEMPLATES, fd.locality)
         IN  <<"Age category ", fd.age_category,
               " is not supported for locality ", fd.locality,
               ". Supported categories: ",
               IF localityTemplates # Undefined
               THEN Keys(localityTemplates) ELSE <<"none">> >>
    ELSE IF NeedsSecondReferee(fd)
    THEN <<"referee_name_2 is required for U11 and U13 categories">>
    ELSE IF ~timeRegex(fd.starting_hour)
    THEN <<"starting_hour must be in HH:MM format">>
    ELSE IF ~dateRegex(fd.match_date)
    THEN <<"match_date must be in YYYY-MM-DD format">>
    ELSE Null

\* validateFormData: the first failing test decides the message, null if none
validateFormData(fd) ==
    IF MissingRequired(fd) # {}
    THEN LET i == CHOOSE j \in MissingRequired(fd) :
                      \A k \in MissingRequired(fd) : j <= k
         IN  <<"Missing required field: ", required[i]>>
    ELSE IF ~Includes(validCategories, fd.age_category)
    THEN <<"Invalid age category. Must be one of: ", validCategories>>
    ELSE IF ~Includes(SUPPORTED_LOCALITIES, fd.locality)
    THEN <<"Invalid locality. Must be one of: ", SUPPORTED_LOCALITIES>>
    ELSE IF CategoryUnsupported(fd)
    THEN LET localityTemplates == Get(LOCALITY_TEMPLATES, fd.locality)
         IN  <<"Age category ", fd.age_category,
               " is not supported for locality ", fd.locality,
               ". Supported categories: ",
               IF localityTemplates # Undefined
               THEN Keys(localityTemplates) ELSE <<"none">> >>
    ELSE IF NeedsSecondReferee(fd)
    THEN <<"referee_name_2 is required for U11 and U13 categories">>
    ELSE IF ~dateRegex(fd.match_date)
    THEN <<"match_date must be in YYYY-MM-DD format">>
    ELSE IF ~timeRegex(fd.starting_hour)
    THEN <<"starting_hour must be in HH:MM format">>
    ELSE Null

-----------------------------------------------------------------------------
(* Asset collaborator and PDF library *)

\* What env.ASSETS.fetch(path) can do: resolve with the baseline bytes ("ok"),
\* with other bytes that still parse ("modified") or do not ("corrupt"),
\* resolve with response.ok = false ("missing"), or reject ("error").
AssetConditions == {"ok", "modified", "corrupt", "missing", "error"}

\* What pdfDoc.save() can do once load, embedFont and the draws succeeded.
SaveOutcomes == {"pdf", "empty", "garbage", "throw"}

\* no Response built yet
NoResponse == [pending |-> TRUE]

NoDoc ==
    [path |-> None, template |-> "none", font |-> "none", saved |-> "none",
     overlays |-> <<>>, pages |-> 0, drawn |-> <<>>]

-----------------------------------------------------------------------------
(* Overlays: where each text goes, and what the text is *)

\* one placement of OVERLAY_CONFIGS
Item(x, y, page, field) == [x |-> x, y |-> y, page |-> page, field |-> field]

OVERLAY_CONFIGS ==
    <<
      Entry(Ilfov, <<
          Entry(U9, [overlays |-> <<
              Item(101, 687, 0, "referee_name_1"),
              Item(337, 686, 0, "formatted_date"),
              Item(101, 712, 0, "match_vs"),
              Item(101, 636, 0, "team_1"),
              Item(355, 636, 0, "team_2") >>]),
          Entry(U11, [overlays |-> <<
              Item(101, 687, 0, "referee_name_1"),
              Item(101, 662, 0, "referee_name_2"),
              Item(346, 686, 0, "formatted_date"),
              Item(335, 660, 0, "starting_hour"),
              Item(101, 712, 0, "match_vs"),
              Item(101, 636, 0, "team_1"),
              Item(355, 636, 0, "team_2") >>]),
          Entry(U13, [overlays |-> <<
              Item(101, 687, 0, "referee_name_1"),
              Item(101, 662, 0, "referee_name_2"),
              Item(346, 686, 0, "formatted_date"),
              Item(335, 660, 0, "starting_hour"),
              Item(101, 712, 0, "match_vs"),
              Item(101, 636, 0, "team_1"),
              Item(355, 636, 0, "team_2") >>]),
          Entry(U15, [overlays |-> <<
              Item(163, 353, 0, "referee_name_1"),
              Item(163, 338, 0, "assistant_referee_1"),
              Item(163, 321, 0, "assistant_referee_2"),
              Item(163, 305, 0, "fourth_official"),
              Item(490, 353, 0, "locality_field"),
              Item(490, 337, 0, "locality_field"),
              Item(490, 322, 0, "locality_field"),
              Item(490, 305, 0, "locality_field"),
              Item(390, 425, 0, "formatted_date"),
              Item(510, 425, 0, "starting_hour"),
              Item(110, 515, 0, "match_vs"),
              Item(110, 453, 0, "competition"),
              Item(150, 399, 0, "stadium_name"),
              Item(163, 426, 0, "stadium_locality"),
              Item(90, 78, 4, "formatted_date"),
              Item(150, 783, 5, "team_1"),
              Item(160, 783, 6, "team_2") >>]) >>),
      Entry(frf, <<
          Entry(U11, [overlays |-> <<
              Item(101, 687, 0, "refs") >>]),
          Entry(U12, [overlays |-> <<>>]),
          Entry(U13, [overlays |-> <<
              Item(101, 687, 0, "referee_name_1"),
              Item(101, 662, 0, "referee_name_2"),
              Item(346, 686, 0, "formatted_date"),
              Item(335, 660, 0, "starting_hour"),
              Item(101, 712, 0, "match_vs"),
              Item(101, 636, 0, "team_1"),
              Item(355, 636, 0, "team_2") >>]),
          Entry(U14, [overlays |-> <<
              Item(163, 359, 0, "referee_name_1"),
              Item(163, 343, 0, "assistant_referee_1"),
              Item(163, 327, 0, "assistant_referee_2"),
              Item(163, 310, 0, "fourth_official"),
              Item(490, 359, 0, "locality_field"),
              Item(490, 344, 0, "locality_field"),
              Item(490, 327, 0, "locality_field"),
              Item(490, 310, 0, "locality_field"),
              Item(390, 430, 0, "formatted_date"),
              Item(510, 430, 0, "starting_hour"),
              Item(110, 520, 0, "match_vs"),
              Item(110, 458, 0, "competition"),
              Item(150, 402, 0, "stadium_name"),
              Item(163, 430, 0, "stadium_locality"),
              Item(90, 78, 4, "formatted_date"),
              Item(150, 783, 5, "team_1"),
              Item(160, 783, 6, "team_2") >>]),
          Entry(U15, [overlays |-> <<
              Item(163, 359, 0, "referee_name_1"),
              Item(163, 343, 0, "assistant_referee_1"),
              Item(163, 327, 0, "assistant_referee_2"),
              Item(163, 310, 0, "fourth_official"),
              Item(490, 359, 0, "locality_field"),
              Item(490, 344, 0, "locality_field"),
              Item(490, 327, 0, "locality_field"),
              Item(490, 310, 0, "locality_field"),
              Item(390, 430, 0, "formatted_date"),
              Item(510, 430, 0, "starting_hour"),
              Item(110, 520, 0, "match_vs"),
              Item(110, 458, 0, "competition"),
              Item(150, 402, 0, "stadium_name"),
              Item(163, 430, 0, "stadium_locality"),
              Item(90, 78, 4, "formatted_date"),
              Item(150, 783, 5, "team_1"),
              Item(160, 783, 6, "team_2") >>]),
          Entry(U16, [overlays |-> <<
              Item(163, 353, 0, "referee_name_1"),
              Item(163, 338, 0, "assistant_referee_1"),
              Item(163, 321, 0, "assistant_referee_2"),
              Item(163, 305, 0, "fourth_official"),
              Item(490, 353, 0, "locality_field"),
              Item(490, 337, 0, "locality_field"),
              Item(490, 322, 0, "locality_field"),
              Item(490, 305, 0, "locality_field"),
              Item(390, 425, 0, "formatted_date"),
              Item(510, 425, 0, "starting_hour"),
              Item(110, 515, 0, "match_vs"),
              Item(110, 453, 0, "competition"),
              Item(150, 399, 0, "stadium_name"),
              Item(163, 426, 0, "stadium_locality"),
              Item(90, 78, 4, "formatted_date"),
              Item(150, 783, 5, "team_1"),
              Item(160, 783, 6, "team_2") >>]),
          Entry(U17, [overlays |-> <<
              Item(163, 353, 0, "referee_name_1"),
              Item(163, 338, 0, "assistant_referee_1"),
              Item(163, 321, 0, "assistant_referee_2"),
              Item(163, 305, 0, "fourth_official"),
              Item(490, 353, 0, "locality_field"),
              Item(490, 337, 0, "locality_field"),
              Item(490, 322, 0, "locality_field"),
              Item(490, 305, 0, "locality_field"),
              Item(390, 425, 0, "formatted_date"),
              Item(510, 425, 0, "starting_hour"),
              Item(110, 515, 0, "match_vs"),
              Item(110, 453, 0, "competition"),
              Item(150, 399, 0, "stadium_name"),
              Item(163, 426, 0, "stadium_locality"),
              Item(90, 78, 4, "formatted_date"),
              Item(150, 783, 5, "team_1"),
              Item(160, 783, 6, "team_2") >>]),
          Entry(U17F, [overlays |-> <<
              Item(163, 353, 0, "referee_name_1"),
              Item(163, 338, 0, "assistant_referee_1"),
              Item(163, 321, 0, "assistant_referee_2"),
              Item(163, 305, 0, "fourth_official"),
              Item(490, 353, 0, "locality_field"),
              Item(490, 337, 0, "locality_field"),
              Item(490, 322, 0, "locality_field"),
              Item(490, 305, 0, "locality_field"),
              Item(390, 425, 0, "formatted_date"),
              Item(510, 425, 0, "starting_hour"),
              Item(110, 515, 0, "match_vs"),
              Item(110, 453, 0, "competition"),
              Item(150, 399, 0, "stadium_name"),
              Item(163, 426, 0, "stadium_locality"),
              Item(90, 78, 4, "formatted_date"),
              Item(150, 783, 5, "team_1"),
              Item(160, 783, 6, "team_2") >>]),
          Entry(LIGA2, [overlays |-> <<
              Item(163, 353, 0, "referee_name_1"),
              Item(163, 338, 0, "assistant_referee_1"),
              Item(163, 321, 0, "assistant_referee_2"),
              Item(163, 305, 0, "fourth_official"),
              Item(490, 353, 0, "locality_field"),
              Item(490, 337, 0, "locality_field"),
              Item(490, 322, 0, "locality_field"),
              Item(490, 305, 0, "locality_field"),
              Item(390, 425, 0, "formatted_date"),
              Item(510, 425, 0, "starting_hour"),
              Item(110, 515, 0, "match_vs"),
              Item(110, 453, 0, "competition"),
              Item(150, 399, 0, "stadium_name"),
              Item(163, 426, 0, "stadium_locality"),
              Item(90, 78, 4, "formatted_date"),
              Item(150, 783, 5, "team_1"),
              Item(160, 783, 6, "team_2") >>]),
          Entry(LIGA3, [overlays |-> <<
              Item(163, 353, 0, "referee_name_1"),
              Item(163, 338, 0, "assistant_referee_1"),
              Item(163, 321, 0, "assistant_referee_2"),
              Item(163, 305, 0, "fourth_official"),
              Item(490, 353, 0, "locality_field"),
              Item(490, 337, 0, "locality_field"),
              Item(490, 322, 0, "locality_field"),
              Item(490, 305, 0, "locality_field"),
              Item(390, 425, 0, "formatted_date"),
              Item(510, 425, 0, "starting_hour"),
              Item(110, 515, 0, "match_vs"),
              Item(110, 453, 0, "competition"),
              Item(150, 399, 0, "stadium_name"),
              Item(163, 426, 0, "stadium_locality"),
              Item(90, 78, 4, "formatted_date"),
              Item(150, 783, 5, "team_1"),
              Item(160, 783, 6, "team_2") >>]),
          Entry(LIGAT, [overlays |-> <<
              Item(163, 353, 0, "referee_name_1"),
              Item(163, 338, 0, "assistant_referee_1"),
              Item(163, 321, 0, "assistant_referee_2"),
              Item(163, 305, 0, "fourth_official"),
              Item(490, 353, 0, "locality_field"),
              Item(490, 337, 0, "locality_field"),
              Item(490, 322, 0, "locality_field"),
              Item(490, 305, 0, "locality_field"),
              Item(390, 425, 0, "formatted_date"),
              Item(510, 425, 0, "starting_hour"),
              Item(110, 515, 0, "match_vs"),
              Item(110, 453, 0, "competition"),
              Item(150, 399, 0, "stadium_name"),
              Item(163, 426, 0, "stadium_locality"),
              Item(90, 78, 4, "formatted_date"),
              Item(150, 783, 5, "team_1"),
              Item(160, 783, 6, "team_2") >>]),
          Entry(CN, [overlays |-> <<
              Item(163, 353, 0, "referee_name_1"),
              Item(163, 338, 0, "assistant_referee_1"),
              Item(163, 321, 0, "assistant_referee_2"),
              Item(163, 305, 0, "fourth_official"),
              Item(490, 353, 0, "locality_field"),
              Item(490, 337, 0, "locality_field"),
              Item(490, 322, 0, "locality_field"),
              Item(490, 305, 0, "locality_field"),
              Item(390, 425, 0, "formatted_date"),
              Item(510, 425, 0, "starting_hour"),
              Item(110, 515, 0, "match_vs"),
              Item(110, 453, 0, "competition"),
              Item(150, 399, 0, "stadium_name"),
              Item(163, 426, 0, "stadium_locality"),
              Item(90, 78, 4, "formatted_date"),
              Item(150, 783, 5, "team_1"),
              Item(160, 783, 6, "team_2") >>]) >>) >>

\* ${v} in a template literal, and v in a string concatenation
Interp(v) ==
    IF v = Undefined THEN <<"u", "n", "d", "e", "f", "i", "n", "e", "d">> ELSE v

DigitChars == <<"0", "1", "2", "3", "4", "5", "6", "7", "8", "9">>

DigitVal(c) == (CHOOSE n \in 1..Len(DigitChars) : DigitChars[n] = c) - 1

\* Number.prototype.toString
RECURSIVE Decimal(_)
Decimal(n) ==
    IF n < 10 THEN <<DigitChars[n + 1]>>
    ELSE Decimal(n \div 10) \o <<DigitChars[(n % 10) + 1]>>

\* padStart(2, '0')
PadStart2(s) == IF Len(s) < 2 THEN <<"0">> \o s ELSE s

NaN == <<"N", "a", "N">>

LeapYear(y) == y % 4 = 0 /\ (y % 100 # 0 \/ y % 400 = 0)

DaysIn(m, y) ==
    IF m = 2 THEN (IF LeapYear(y) THEN 29 ELSE 28)
    ELSE IF m \in {4, 6, 9, 11} THEN 30 ELSE 31

\* new Date(dateString) for a text of the shape dddd-dd-dd, read as the
\* engine of the worker reads it: midnight UTC of that day (the worker's
\* local time is UTC); a month outside 01-12 or a day outside 01-31 gives an
\* invalid Date; a day past the end of its month runs on into the next
\* month. Texts of other shapes are taken as invalid: none reaches
\* formatDate in the specifications of this module.
ParseDate(dateString) ==
    IF dateString = Undefined \/ ~dateRegex(dateString)
    THEN [valid |-> FALSE, year |-> 0, month |-> 0, day |-> 0]
    ELSE LET y == DigitVal(dateString[1]) * 1000 + DigitVal(dateString[2]) * 100
                    + DigitVal(dateString[3]) * 10 + DigitVal(dateString[4])
             m == DigitVal(dateString[6]) * 10 + DigitVal(dateString[7])
             d == DigitVal(dateString[9]) * 10 + DigitVal(dateString[10])
         IN  IF m \notin 1..12 \/ d \notin 1..31
             THEN [valid |-> FALSE, year |-> 0, month |-> 0, day |-> 0]
             ELSE IF d > DaysIn(m, y)
             THEN [valid |-> TRUE, year |-> y, month |-> m + 1,
                   day |-> d - DaysIn(m, y)]
             ELSE [valid |-> TRUE, year |-> y, month |-> m, day |-> d]

\* formatDate
formatDate(dateString, ageCategory) ==
    LET date == ParseDate(dateString)
        day == IF date.valid THEN PadStart2(Decimal(date.day)) ELSE NaN
        month == IF date.valid THEN PadStart2(Decimal(date.month)) ELSE NaN
        year == IF date.valid THEN Decimal(date.year) ELSE NaN
    IN  IF ageCategory = U15
        THEN day \o <<".">> \o month \o <<".">> \o year
        ELSE day \o <<" ", " ", " ", " ", " ">> \o month

\* one element of a TextOverlay[]
Overlay(text, x, y, page) == [text |-> text, x |-> x, y |-> y, page |-> page]

\* the field tags that name a request field
LiteralFields ==
    {"assistant_referee_1", "assistant_referee_2", "fourth_official", "team_1",
     "team_2", "starting_hour", "competition", "stadium_name", "stadium_locality"}

\* getOverlays: the switch on item.field
overlayText(item, fd) ==
    IF item.field = "formatted_date"
    THEN formatDate(fd.match_date, fd.age_category)
    ELSE IF item.field = "match_vs"
    THEN Interp(fd.team_1) \o <<" ", "-", " ">> \o Interp(fd.team_2)
    ELSE IF item.field = "locality_field"
    THEN fd.locality
    ELSE IF item.field \in {"referee_name_1", "referee_name_2", "refs"}
    THEN Interp(fd.referee_name_1) \o <<" ", " ">> \o Interp(fd.referee_name_2)
    ELSE IF item.field \in LiteralFields
    THEN (IF Falsy(fd[item.field]) THEN <<>> ELSE fd[item.field])
    ELSE <<>>

getU9Overlays(fd) ==
    << Overlay(fd.referee_name_1, 101, 687, 0),
       Overlay(formatDate(fd.match_date, U9), 337, 686, 0),
       Overlay(Interp(fd.team_1) \o <<" ", "-", " ">> \o Interp(fd.team_2), 101, 712, 0),
       Overlay(fd.team_1, 101, 636, 0),
       Overlay(fd.team_2, 355, 636, 0) >>

getU11U13Overlays(fd) ==
    << Overlay(fd.referee_name_1, 101, 687, 0),
       Overlay(IF Falsy(fd.referee_name_2) THEN <<>> ELSE fd.referee_name_2,
               101, 662, 0),
       Overlay(formatDate(fd.match_date, fd.age_category), 346, 686, 0),
       Overlay(fd.starting_hour, 335, 660, 0),
       Overlay(Interp(fd.team_1) \o <<" ", "-", " ">> \o Interp(fd.team_2), 101, 712, 0),
       Overlay(fd.team_1, 101, 636, 0),
       Overlay(fd.team_2, 355, 636, 0) >>

getU15Overlays(fd) ==
    LET Or(v) == IF Falsy(v) THEN <<>> ELSE v
    IN  << Overlay(fd.referee_name_1, 163, 353, 0),
           Overlay(Or(fd.assistant_referee_1), 163, 338, 0),
           Overlay(Or(fd.assistant_referee_2), 163, 321, 0),
           Overlay(Or(fd.fourth_official), 163, 305, 0),
           Overlay(formatDate(fd.match_date, U15), 390, 425, 0),
           Overlay(fd.starting_hour, 510, 425, 0),
           Overlay(Interp(fd.team_1) \o <<" ", "-", " ">> \o Interp(fd.team_2),
                   110, 515, 0),
           Overlay(Or(fd.competition), 110, 453, 0),
           Overlay(Or(fd.stadium_name), 150, 399, 0),
           Overlay(Or(fd.stadium_locality), 163, 426, 0),
           Overlay(formatDate(fd.match_date, U15), 90, 78, 4),
           Overlay(fd.team_1, 150, 783, 5),
           Overlay(fd.team_2, 160, 783, 6),
           Overlay(fd.locality, 490, 353, 0),
           Overlay(fd.locality, 490, 337, 0),
           Overlay(fd.locality, 490, 322, 0),
           Overlay(fd.locality, 490, 305, 0) >>

getLegacyOverlays(fd) ==
    IF fd.age_category = U9 THEN getU9Overlays(fd)
    ELSE IF fd.age_category = U11 \/ fd.age_category = U13
    THEN getU11U13Overlays(fd)
    ELSE IF fd.age_category = U15 THEN getU15Overlays(fd)
    ELSE <<>>

\* OVERLAY_CONFIGS[formData.locality]?.[formData.age_category]?.overlays,
\* <<>> when there is no such config
configOverlays(fd) ==
    IF ~HasKey(OVERLAY_CONFIGS, fd.locality) THEN <<>>
    ELSE IF ~HasKey(Get(OVERLAY_CONFIGS, fd.locality), fd.age_category) THEN <<>>
    ELSE Get(Get(OVERLAY_CONFIGS, fd.locality), fd.age_category).overlays

\* getOverlays
getOverlays(fd) ==
    LET items == configOverlays(fd)
        Truthy(o) == ~Falsy(o.text)
    IN  IF Len(items) = 0 THEN getLegacyOverlays(fd)
        ELSE SelectSeq([i \in 1..Len(items) |->
                           Overlay(overlayText(items[i], fd), items[i].x,
                                   items[i].y, items[i].page)],
                       Truthy)

\* applyOverlays: the keys of overlaysByPage, in insertion order
RECURSIVE PagesOf(_)
PagesOf(overlays) ==
    IF overlays = <<>> THEN <<>>
    ELSE LET rest == PagesOf(SubSeq(overlays, 1, Len(overlays) - 1))
             page == overlays[Len(overlays)].page
         IN  IF Includes(rest, page) THEN rest ELSE Append(rest, page)

\* one page.drawText call
DrawText(overlay) ==
    [text |-> overlay.text, x |-> overlay.x, y |-> overlay.y,
     page |-> overlay.page, size |-> 13]

\* a variant that draws whatever text it is given
DrawCallsOnPageUntrimmed(overlays, page) ==
    [i \in 1..Len(overlays) |-> DrawText(overlays[i])]

\* applyOverlays: the draws on one page that exists
DrawCallsOnPage(overlays, page) ==
    LET Drawn(o) == Trim(o.text) # <<>>
        kept == SelectSeq(overlays, Drawn)
    IN  [i \in 1..Len(kept) |-> DrawText(kept[i])]

\* applyOverlays: the drawText calls, page by page, pages the document does
\* not have being skipped
RECURSIVE DrawCallsFrom(_, _, _)
DrawCallsFrom(overlays, pageCount, pages) ==
    IF pages = <<>> THEN <<>>
    ELSE LET OnPage(o) == o.page = Head(pages)
         IN  (IF Head(pages) >= pageCount THEN <<>>
              ELSE DrawCallsOnPage(SelectSeq(overlays, OnPage), Head(pages)))
             \o DrawCallsFrom(overlays, pageCount, Tail(pages))

DrawCalls(overlays, pageCount) ==
    DrawCallsFrom(overlays, pageCount, PagesOf(overlays))

\* a variant in which an overlay for a page the document lacks throws
DrawThrowsBeyond(overlays, pageCount) ==
    \E i \in 1..Len(overlays) : overlays[i].page >= pageCount

\* overlay.text.trim() of a text that is undefined throws
DrawThrows(overlays, pageCount) ==
    \E i \in 1..Len(overlays) :
        overlays[i].page < pageCount /\ overlays[i].text = Undefined

\* what pdfDoc.getPageCount() can be for a template
PageCounts == {1, 5, 7}

-----------------------------------------------------------------------------
(* Report generator: POST /api/generate-report, and generateReport called
   directly (as runAutotest calls it) *)

\* the routing tests of the handler, in the order it makes them
IsPreflight(rq) == rq.method = "OPTIONS"

IsStatusRoute(rq) == ~IsPreflight(rq) /\ rq.pathname = "/api/status"

IsHealthRoute(rq) ==
    /\ ~IsPreflight(rq) /\ ~IsStatusRoute(rq)
    /\ (rq.pathname = "/" \/ rq.pathname = "/health")

IsGenerateRoute(rq) ==
    /\ ~IsPreflight(rq) /\ ~IsStatusRoute(rq) /\ ~IsHealthRoute(rq)
    /\ rq.pathname = "/api/generate-report" /\ rq.method = "POST"

\* the characters [a-zA-Z0-9]
Alnum ==
    Digit \cup
    {"a", "b", "c", "d", "e", "f", "g", "h", "i", "j", "k", "l", "m", "n", "o",
     "p", "q", "r", "s", "t", "u", "v", "w", "x", "y", "z", "A", "B", "C", "D",
     "E", "F", "G", "H", "I", "J", "K", "L", "M", "N", "O", "P", "Q", "R", "S",
     "T", "U", "V", "W", "X", "Y", "Z"}

\* 'referee_report_'
ReportPrefix ==
    <<"r", "e", "f", "e", "r", "e", "e", "_", "r", "e", "p", "o", "r", "t",
      "_">>
\* '_vs_'
VersusInfix == <<"_", "v", "s", "_">>
\* '.pdf'
PdfSuffix == <<".", "p", "d", "f">>

\* a variant that keeps the team names as they are
generateFilenameRaw(fd) ==
    ReportPrefix \o fd.age_category \o <<"_">> \o fd.team_1 \o VersusInfix
        \o fd.team_2 \o <<"_">> \o fd.match_date \o PdfSuffix

\* generateFilename
generateFilename(fd) ==
    LET NotSeparator(c) == c \notin {"-", "/"}
        IsAlnum(c) == c \in Alnum
        dateStr == SelectSeq(fd.match_date, NotSeparator)
        team1Clean == SelectSeq(fd.team_1, IsAlnum)
        team2Clean == SelectSeq(fd.team_2, IsAlnum)
    IN  ReportPrefix \o fd.age_category \o <<"_">> \o team1Clean \o VersusInfix
            \o team2Clean \o <<"_">> \o dateStr \o PdfSuffix

\* `attachment; filename="'
AttachmentPrefix == <<"attachment; filename=\"">>

\* pdfBuffer.byteLength.toString()
byteLengthOf(saved) == <<"byteLength of ", saved>>

\* a request body that is not JSON
BadJson == [malformed |-> TRUE]

\* const formData = await request.json()  -- rejects on a malformed body
ParseBody ==
    /\ pc = "received"
    /\ IsGenerateRoute(request)
    /\ formData = BadJson
    /\ thrown' = <<"Unexpected token">>
    /\ pc' = "failed"
    /\ UNCHANGED <<request, formData, validationError, fetches, doc, response>>

\* const validationError = validateFormData(formData); if (validationError) 400
Validate ==
    /\ pc = "received"
    /\ IsGenerateRoute(request)
    /\ formData # BadJson
    /\ validationError' = validateFormData(formData)
    /\ IF validationError' # Null
       THEN /\ response' = [status |-> 400, contentType |-> "application/json",
                            headers |-> corsHeaders(OriginOf(request)),
                            body |-> [error |-> <<"Validation failed">>,
                                      details |-> validationError']]
            /\ pc' = "done"
       ELSE /\ response' = response
            /\ pc' = "generate"
    /\ UNCHANGED <<request, formData, fetches, doc, thrown>>

\* a variant that looks the category up in every table
templateFilenameAnyLocality(fd) ==
    LET hits == {i \in 1..Len(LOCALITY_TEMPLATES) :
                    HasKey(LOCALITY_TEMPLATES[i].value, fd.age_category)}
    IN  IF hits = {} THEN Undefined
        ELSE Get(LOCALITY_TEMPLATES[CHOOSE i \in hits : \A j \in hits : i <= j].value,
                 fd.age_category)

\* LOCALITY_TEMPLATES[formData.locality]?.[formData.age_category]
templateFilename(fd) ==
    LET localityTemplates == Get(LOCALITY_TEMPLATES, fd.locality)
    IN  IF localityTemplates = Undefined THEN Undefined
        ELSE Get(localityTemplates, fd.age_category)

\* generateReport up to the call of applyOverlays
GenerateReport ==
    /\ pc = "generate"
    /\ IF Falsy(templateFilename(formData))
       THEN /\ thrown' = <<"No template found for ", formData.locality, "/",
                           formData.age_category>>
            /\ pc' = "failed"
            /\ doc' = doc
       ELSE /\ doc' = [NoDoc EXCEPT
                         !.path = TemplatePath(formData.locality,
                                               templateFilename(formData)),
                         !.overlays = getOverlays(formData)]
            /\ pc' = "fetchTemplate"
            /\ thrown' = thrown
    /\ UNCHANGED <<request, formData, validationError, fetches, response>>

\* the messages of the two errors applyOverlays throws for an asset that is
\* not there: 'Template not found: ' (the path follows) and 'Font not found'
TemplateNotFound ==
    <<"T", "e", "m", "p", "l", "a", "t", "e", " ", "n", "o", "t", " ", "f",
      "o", "u", "n", "d", ":", " ">>

FontNotFound ==
    <<"F", "o", "n", "t", " ", "n", "o", "t", " ", "f", "o", "u", "n", "d">>

\* a variant that fetches a template that is not there a second time
FetchTemplateRetrying(c) ==
    /\ pc = "fetchTemplate"
    /\ fetches' = Append(fetches, doc.path)
    /\ IF c = "error"
       THEN thrown' = <<"fetch failed">> /\ pc' = "failed" /\ doc' = doc
       ELSE IF c = "missing" /\ fetches = <<>>
       THEN thrown' = thrown /\ pc' = "fetchTemplate" /\ doc' = doc
       ELSE IF c = "missing"
       THEN /\ thrown' = TemplateNotFound \o doc.path
            /\ pc' = "failed" /\ doc' = [doc EXCEPT !.template = c]
       ELSE /\ doc' = [doc EXCEPT !.template = c]
            /\ pc' = "loadTemplate" /\ thrown' = thrown
    /\ UNCHANGED <<request, formData, validationError, response>>

\* applyOverlays: await env.ASSETS.fetch(template); if (!templateResponse.ok) throw
FetchTemplate(c) ==
    /\ pc = "fetchTemplate"
    /\ fetches' = Append(fetches, doc.path)
    /\ IF c = "error"
       THEN thrown' = <<"fetch failed">> /\ pc' = "failed" /\ doc' = doc
       ELSE IF c = "missing"
       THEN /\ thrown' = TemplateNotFound \o doc.path
            /\ pc' = "failed" /\ doc' = [doc EXCEPT !.template = c]
       ELSE /\ doc' = [doc EXCEPT !.template = c]
            /\ pc' = "loadTemplate" /\ thrown' = thrown
    /\ UNCHANGED <<request, formData, validationError, response>>

\* applyOverlays: await PDFDocument.load(templateBytes); n is the number of
\* pages of the document loaded
LoadTemplate(n) ==
    /\ pc = "loadTemplate"
    /\ IF doc.template = "corrupt"
       THEN thrown' = <<"Failed to parse PDF document">> /\ pc' = "failed" /\ doc' = doc
       ELSE thrown' = thrown /\ pc' = "fetchFont" /\ doc' = [doc EXCEPT !.pages = n]
    /\ UNCHANGED <<request, formData, validationError, fetches, response>>

\* applyOverlays: await env.ASSETS.fetch(font); if (!fontResponse.ok) throw
FetchFont(c) ==
    /\ pc = "fetchFont"
    /\ fetches' = Append(fetches, fontPath)
    /\ IF c = "error"
       THEN thrown' = <<"fetch failed">> /\ pc' = "failed" /\ doc' = doc
       ELSE IF c = "missing"
       THEN /\ thrown' = FontNotFound
            /\ pc' = "failed" /\ doc' = [doc EXCEPT !.font = c]
       ELSE /\ doc' = [doc EXCEPT !.font = c]
            /\ pc' = "embedFont" /\ thrown' = thrown
    /\ UNCHANGED <<request, formData, validationError, response>>

\* applyOverlays: await pdfDoc.embedFont(fontBytes)
EmbedFont ==
    /\ pc = "embedFont"
    /\ IF doc.font = "corrupt"
       THEN thrown' = <<"Unknown font format">> /\ pc' = "failed"
       ELSE thrown' = thrown /\ pc' = "draw"
    /\ UNCHANGED <<request, formData, validationError, fetches, doc, response>>

\* a variant in which a failing save() is swallowed
DrawAndSaveSwallowed(o) ==
    /\ pc = "draw"
    /\ doc' = [doc EXCEPT !.saved = IF o = "throw" THEN "none" ELSE o,
                          !.drawn = DrawCalls(doc.overlays, doc.pages)]
    /\ pc' = "returned" /\ thrown' = thrown
    /\ UNCHANGED <<request, formData, validationError, fetches, response>>

\* applyOverlays: the draws, then return await pdfDoc.save()
DrawAndSave(o) ==
    /\ pc = "draw"
    /\ IF DrawThrows(doc.overlays, doc.pages)
       THEN /\ thrown' = <<"Cannot read properties of undefined (reading 'trim')">>
            /\ pc' = "failed" /\ doc' = doc
       ELSE IF o = "throw"
       THEN /\ thrown' = <<"render failure">> /\ pc' = "failed"
            /\ doc' = [doc EXCEPT !.drawn = DrawCalls(doc.overlays, doc.pages)]
       ELSE /\ doc' = [doc EXCEPT !.saved = o,
                                  !.drawn = DrawCalls(doc.overlays, doc.pages)]
            /\ pc' = "returned" /\ thrown' = thrown
    /\ UNCHANGED <<request, formData, validationError, fetches, response>>

\* the route: return new Response(pdfBuffer, {status: 200, ...})
Respond200 ==
    /\ pc = "returned"
    /\ validationError = Null
    /\ response' = [status |-> 200, contentType |-> "application/pdf",
                    headers |->
                        <<Entry("Content-Disposition",
                                AttachmentPrefix \o generateFilename(formData)
                                    \o <<"\"">>),
                          Entry("Content-Length", byteLengthOf(doc.saved))>>
                            \o corsHeaders(OriginOf(request)),
                    body |-> doc]
    /\ pc' = "done"
    /\ UNCHANGED <<request, formData, validationError, fetches, doc, thrown>>

\* the route: catch (error) { return new Response(JSON..., {status: 500}) }
Respond500 ==
    /\ pc = "failed"
    /\ validationError = Null \/ formData = BadJson
    /\ response' = [status |-> 500, contentType |-> "application/json",
                    headers |-> corsHeaders(OriginOf(request)),
                    body |-> [error |-> <<"Internal server error">>,
                              details |-> thrown]]
    /\ pc' = "done"
    /\ UNCHANGED <<request, formData, validationError, fetches, doc, thrown>>

\* if (request.method === 'OPTIONS') return new Response(null, {headers: ...})
Preflight ==
    /\ pc = "received"
    /\ IsPreflight(request)
    /\ response' = [status |-> 200, contentType |-> "none",
                    headers |-> IF isAllowed(OriginOf(request))
                                THEN corsHeaders(OriginOf(request))
                                ELSE <<AllowMethods>>,
                    body |-> Null]
    /\ pc' = "done"
    /\ UNCHANGED <<request, formData, validationError, fetches, doc, thrown>>

\* the health route: the supported categories of every locality
HealthRoute ==
    /\ pc = "received"
    /\ IsHealthRoute(request)
    /\ response' = [status |-> 200, contentType |-> "application/json",
                    headers |-> corsHeaders(OriginOf(request)),
                    body |-> [message |-> <<"PDF Generator API">>,
                              supported_localities |-> SUPPORTED_LOCALITIES,
                              supported_by_locality |->
                                  [i \in 1..Len(SUPPORTED_LOCALITIES) |->
                                      Entry(SUPPORTED_LOCALITIES[i],
                                            Keys(Get(LOCALITY_TEMPLATES,
                                                     SUPPORTED_LOCALITIES[i])))],
                              status |-> "healthy"]]
    /\ pc' = "done"
    /\ UNCHANGED <<request, formData, validationError, fetches, doc, thrown>>

\* return new Response('Not Found', {status: 404, headers: corsHeaders})
NotFound ==
    /\ pc = "received"
    /\ ~IsPreflight(request) /\ ~IsStatusRoute(request)
    /\ ~IsHealthRoute(request) /\ ~IsGenerateRoute(request)
    /\ response' = [status |-> 404, contentType |-> "text/plain;charset=UTF-8",
                    headers |-> corsHeaders(OriginOf(request)),
                    body |-> <<"Not Found">>]
    /\ pc' = "done"
    /\ UNCHANGED <<request, formData, validationError, fetches, doc, thrown>>

-----------------------------------------------------------------------------
(* Status reporter *)

STATUS_CACHE_TTL == 60000

\* cachedSystemStatus = null
NullStatus == [null |-> TRUE]

\* SystemStatus.autotest left undefined
NoAutotest == [undefined |-> TRUE]

Hash(h) == <<h>>

KNOWN_GOOD_HASHES ==
    [ templates |->
        << Entry(Ilfov,
             << Entry(<<"/reports/">> \o Ilfov \o <<"/", "referee_template_u9.pdf">>,
                      Hash("2c39f190ce628be33404bb62c8b272cba68a6924a2e876095d426da6f6680980")),
                Entry(<<"/reports/">> \o Ilfov \o <<"/", "referee_template_u11.pdf">>,
                      Hash("3996ff002d0c86c1e2902255c2fccf02c5538c0c6f72b9d3aba16f3fc56de925")),
                Entry(<<"/reports/">> \o Ilfov \o <<"/", "referee_template_u13.pdf">>,
                      Hash("2bce26208461dccb0a375847ecc8954df47ec9e98c2cca3de4533914a4a8b432")),
                Entry(<<"/reports/">> \o Ilfov \o <<"/", "referee_template_u15.pdf">>,
                      Hash("bc99e407ff955a3c417596ed2fc2a1d3d69fc069693ce55f14e9d638c5e257d1")) >>),
           Entry(frf,
             << Entry(<<"/reports/">> \o frf \o <<"/", "referee_template-Interliga-U11.pdf">>,
                      Hash("321860428eaf400994ecff761a3ab64ebb6595e35a32f2159f9119f0316789d8")),
                Entry(<<"/reports/">> \o frf \o <<"/", "referee_template-Interliga-U12.pdf">>,
                      Hash("b4db5099c769ff153cb0499fe146838283272030047eaef30bf063de7c75f780")),
                Entry(<<"/reports/">> \o frf \o <<"/", "referee_template-liga-elitelor_U13.pdf">>,
                      Hash("307cc8ba5bd6cda083b3901a835808e321829a29bdbaab78045c9faba8041e6f")),
                Entry(<<"/reports/">> \o frf \o <<"/", "referee_template-liga-elitelor_U14.pdf">>,
                      Hash("98c1cac31adba46c5fdaed41860a7a5075179fd379af40adf12b18bedd9658ca")),
                Entry(<<"/reports/">> \o frf \o <<"/", "referee_template-liga-elitelor_U15.pdf">>,
                      Hash("1e217e3e65588032e4967066bce2d316a17d5c25054350a98b5118a9e4985845")),
                Entry(<<"/reports/">> \o frf \o <<"/", "referee_template-liga-elitelor_U16.pdf">>,
                      Hash("79dcb1827ba590522dab9fdbb3c37d1e34f0b614abcab21f297b5819e18b8556")),
                Entry(<<"/reports/">> \o frf \o <<"/", "referee_template-liga-elitelor_U17.pdf">>,
                      Hash("6849559d0b3793b67a6ace029b8f71508a0b56983ad8dbf6dfe9d69fa3a83a3c")),
                Entry(<<"/reports/">> \o frf \o <<"/", "referee_template-liga-elitelor_U17 feminin.pdf">>,
                      Hash("a7acf455995e96920099b24a85a18ca523387878c60bb24282dd2e0354a07685")),
                Entry(<<"/reports/">> \o frf \o <<"/", "referee_template-liga-2.pdf">>,
                      Hash("6f06a1148741c47151feabed467b4c58680f46f226b50f0b50df7a15a7219b69")),
                Entry(<<"/reports/">> \o frf \o <<"/", "referee_template-liga-3.pdf">>,
                      Hash("f0107dd39637f5ad88d06ee3d058f1f4dbec51d9bdd938344b9aae8a92063ec3")),
                Entry(<<"/reports/">> \o frf \o <<"/", "referee_template-liga-de-Tineret.pdf">>,
                      Hash("607a2abe1c5a80189437d874966d6140f39c042e5fe6ee7bf897b14bb3cb8eef")),
                Entry(<<"/reports/">> \o frf \o <<"/", "referee_template-campionate-nationale.pdf">>,
                      Hash("6f46471fb57f5567073b41ce1c42e71901d753f3b56c4eee5c6e8744e3642c05")) >>) >>,
      font |-> Hash("0de679de4d3d236c4a60e13bd2cd16d0f93368e9f6ba848385a8023c2e53c202") ]

\* the loop that builds templatePaths: every locality of SUPPORTED_LOCALITIES,
\* every entry of its template table, in order
RECURSIVE PathsFrom(_)
PathsFrom(i) ==
    IF i > Len(SUPPORTED_LOCALITIES) THEN <<>>
    ELSE LET locality == SUPPORTED_LOCALITIES[i]
             localityTemplates == Get(LOCALITY_TEMPLATES, locality)
         IN  (IF localityTemplates = Undefined THEN <<>>
              ELSE [j \in 1..Len(localityTemplates) |->
                       TemplatePath(locality, localityTemplates[j].value)])
             \o PathsFrom(i + 1)

\* a variant that builds the paths of the last locality only
templatePathsLastLocality == PathsFrom(Len(SUPPORTED_LOCALITIES))

templatePaths == PathsFrom(1)

\* the bytes an asset fetch delivered: the released file ("ok") or other bytes
Bytes(path, c) == [path |-> path, content |-> c]

\* the digest of the released file at `path' (the font's, or a template's)
ReleasedDigest(path) ==
    IF path = fontPath THEN KNOWN_GOOD_HASHES.font
    ELSE LET hits == {i \in 1..Len(KNOWN_GOOD_HASHES.templates) :
                         HasKey(KNOWN_GOOD_HASHES.templates[i].value, path)}
         IN  IF hits = {} THEN <<"sha256 of the released ">> \o path
             ELSE Get(KNOWN_GOOD_HASHES.templates[CHOOSE i \in hits : TRUE].value, path)

\* SHA-256, hex
computeHash(buffer) ==
    IF buffer.content = "ok" THEN ReleasedDigest(buffer.path)
    ELSE <<"sha256 of ", buffer.content, " bytes">>

byteLength(buffer) == <<"byteLength of ", buffer.content, " bytes">>

\* the loop that finds expectedHash: the first locality whose table has the path
RECURSIVE expectedHashFrom(_, _)
expectedHashFrom(path, i) ==
    IF i > Len(SUPPORTED_LOCALITIES) THEN Undefined
    ELSE LET localityHashes == Get(KNOWN_GOOD_HASHES.templates, SUPPORTED_LOCALITIES[i])
         IN  IF localityHashes # Undefined /\ HasKey(localityHashes, path)
             THEN Get(localityHashes, path)
             ELSE expectedHashFrom(path, i + 1)

\* hashValid, a boolean or undefined
Tri(b) == IF b THEN "true" ELSE "false"

\* one element of the Promise.all over templatePaths, c being what the fetch did
TemplateStatusOf(path, c) ==
    IF c = "error"
    THEN [path |-> path, exists |-> FALSE, error |-> <<"fetch failed">>,
          hash |-> Undefined, size |-> Undefined, hashValid |-> "undefined",
          expectedHash |-> Undefined]
    ELSE IF c = "missing"
    THEN [path |-> path, exists |-> FALSE, error |-> <<"HTTP ", "404">>,
          hash |-> Undefined, size |-> Undefined, hashValid |-> "undefined",
          expectedHash |-> Undefined]
    ELSE LET buffer == Bytes(path, c)
             hash == computeHash(buffer)
             expectedHash == expectedHashFrom(path, 1)
         IN  [path |-> path, exists |-> TRUE, error |-> Undefined,
              hash |-> hash, size |-> byteLength(buffer),
              hashValid |-> IF Falsy(expectedHash) THEN "undefined"
                            ELSE Tri(hash = expectedHash),
              expectedHash |-> expectedHash]

\* the font check
FontStatusOf(c) ==
    IF c = "error"
    THEN [exists |-> FALSE, error |-> <<"fetch failed">>, hash |-> Undefined,
          size |-> Undefined, hashValid |-> "undefined", expectedHash |-> Undefined]
    ELSE IF c = "missing"
    THEN [exists |-> FALSE, error |-> <<"HTTP ", "404">>, hash |-> Undefined,
          size |-> Undefined, hashValid |-> "undefined", expectedHash |-> Undefined]
    ELSE LET buffer == Bytes(fontPath, c)
             hash == computeHash(buffer)
             expectedHash == KNOWN_GOOD_HASHES.font
         IN  [exists |-> TRUE, error |-> Undefined, hash |-> hash,
              size |-> byteLength(buffer), hashValid |-> Tri(hash = expectedHash),
              expectedHash |-> expectedHash]

missingTemplates(templateStatuses) ==
    LET Gone(t) == ~t.exists
        gone == SelectSeq(templateStatuses, Gone)
    IN  [i \in 1..Len(gone) |-> gone[i].path]

invalidTemplateHashes(templateStatuses) ==
    LET Bad(t) == t.exists /\ t.hashValid = "false"
    IN  SelectSeq(templateStatuses, Bad)

\* a variant that leaves the font out
overallStatusIgnoringFont(templateStatuses, fontStatus) ==
    IF \E i \in 1..Len(templateStatuses) : ~templateStatuses[i].exists
    THEN "unhealthy"
    ELSE IF Len(invalidTemplateHashes(templateStatuses)) > 0
    THEN "unhealthy"
    ELSE "healthy"

\* "Determine overall status", before the autotest
overallStatus(templateStatuses, fontStatus) ==
    LET allTemplatesExist ==
            \A i \in 1..Len(templateStatuses) : templateStatuses[i].exists
        fontExists == fontStatus.exists
    IN  IF ~allTemplatesExist \/ ~fontExists THEN "unhealthy"
        ELSE IF \/ Len(invalidTemplateHashes(templateStatuses)) > 0
                \/ fontStatus.hashValid = "false"
        THEN "unhealthy"
        ELSE "healthy"

\* the issues pushed before the autotest
issuesBefore(templateStatuses, fontStatus) ==
    (IF \E i \in 1..Len(templateStatuses) : ~templateStatuses[i].exists
     THEN << <<"Missing templates: ">> \o missingTemplates(templateStatuses) >>
     ELSE <<>>)
    \o (IF ~fontStatus.exists THEN << <<"Font file missing">> >> ELSE <<>>)
    \o (IF Len(invalidTemplateHashes(templateStatuses)) > 0
        THEN << <<"Template hash mismatch: ">>
                 \o [i \in 1..Len(invalidTemplateHashes(templateStatuses)) |->
                        invalidTemplateHashes(templateStatuses)[i].path] >>
        ELSE <<>>)
    \o (IF fontStatus.exists /\ fontStatus.hashValid = "false"
        THEN << <<"Font hash mismatch">> >> ELSE <<>>)

\* runAutotest: the canned requests, in the order they are run
testCases ==
    << [referee_name_1 |-> <<"Test Referee U9">>, referee_name_2 |-> Undefined,
        match_date |-> <<"2024-01-15">>, starting_hour |-> <<"10:00">>,
        team_1 |-> <<"Team A">>, team_2 |-> <<"Team B">>,
        age_category |-> U9, locality |-> Ilfov],
       [referee_name_1 |-> <<"Test Referee 1">>, referee_name_2 |-> <<"Test Referee 2">>,
        match_date |-> <<"2024-01-15">>, starting_hour |-> <<"14:30">>,
        team_1 |-> <<"Team C">>, team_2 |-> <<"Team D">>,
        age_category |-> U11, locality |-> Ilfov],
       [referee_name_1 |-> <<"Test Referee 1">>, referee_name_2 |-> <<"Test Referee 2">>,
        match_date |-> <<"2024-01-15">>, starting_hour |-> <<"16:00">>,
        team_1 |-> <<"Team E">>, team_2 |-> <<"Team F">>,
        age_category |-> U13, locality |-> Ilfov],
       [referee_name_1 |-> <<"Test Main Referee">>, referee_name_2 |-> Undefined,
        match_date |-> <<"2024-01-15">>, starting_hour |-> <<"18:00">>,
        team_1 |-> <<"Team G">>, team_2 |-> <<"Team H">>,
        age_category |-> U15, locality |-> Ilfov],
       [referee_name_1 |-> <<"Test Referee">>, referee_name_2 |-> Undefined,
        match_date |-> <<"2024-01-15">>, starting_hour |-> <<"10:00">>,
        team_1 |-> <<"Team A">>, team_2 |-> <<"Team B">>,
        age_category |-> U15, locality |-> frf],
       [referee_name_1 |-> <<"Test Referee Liga 2">>, referee_name_2 |-> Undefined,
        match_date |-> <<"2024-01-15">>, starting_hour |-> <<"14:00">>,
        team_1 |-> <<"Team C">>, team_2 |-> <<"Team D">>,
        age_category |-> LIGA2, locality |-> frf] >>

\* What one canned generateReport call can do: return save()'s bytes ("pdf",
\* "empty", "garbage") or throw.
GenerationOutcomes == SaveOutcomes

\* the error runAutotest records for one canned request, <<>> if none
autotestError(testData, o) ==
    LET tag == testData.locality \o <<"/">> \o testData.age_category
    IN  IF Falsy(templateFilename(testData))
        THEN << tag \o <<": ", "No template found for ">> >>
        ELSE IF o = "throw" THEN << tag \o <<": ", "generation failed">> >>
        ELSE IF o = "empty" THEN << tag \o <<": Generated PDF is empty">> >>
        ELSE IF o # "pdf" THEN << tag \o <<": Invalid PDF format">> >>
        ELSE <<>>

RECURSIVE autotestErrors(_, _)
autotestErrors(outs, i) ==
    IF i > Len(testCases) THEN <<>>
    ELSE autotestError(testCases[i], outs[i]) \o autotestErrors(outs, i + 1)

\* what runAutotest returns
runAutotest(outs, duration) ==
    LET errors == autotestErrors(outs, 1)
    IN  [passed |-> Len(errors) = 0,
         errors |-> IF Len(errors) > 0 THEN errors ELSE Undefined,
         duration |-> duration]

\* a variant that answers 200 unless unhealthy
StatusCodeLenient(status) == IF status.status = "unhealthy" THEN 503 ELSE 200

\* the route's status code for a snapshot
StatusCode(status) == IF status.status = "healthy" THEN 200 ELSE 503

\* a status request that has not started
IdleReq ==
    [pc |-> "idle", forceRefresh |-> FALSE, now |-> 0, fetched |-> <<>>,
     templateOutcomes |-> <<>>, fontOutcome |-> "none", autotestOutcomes |-> <<>>,
     templateStatuses |-> <<>>, fontStatus |-> [exists |-> FALSE],
     startTime |-> 0, result |-> NullStatus, http |-> 0,
     origin |-> <<>>, headers |-> <<>>]

\* variants: no time to live; forceRefresh ignored; half the time to live
CacheFreshForever(forceRefresh, now) ==
    ~forceRefresh /\ cachedSystemStatus # NullStatus

CacheFreshIgnoringForce(forceRefresh, now) ==
    cachedSystemStatus # NullStatus /\ (now - lastStatusCheck) < STATUS_CACHE_TTL

CacheFreshHalfTtl(forceRefresh, now) ==
    /\ ~forceRefresh
    /\ cachedSystemStatus # NullStatus
    /\ (now - lastStatusCheck) * 2 < STATUS_CACHE_TTL

\* the cache test at the head of getSystemStatus
CacheFresh(forceRefresh, now) ==
    /\ ~forceRefresh
    /\ cachedSystemStatus # NullStatus
    /\ (now - lastStatusCheck) < STATUS_CACHE_TTL

\* A request for /api/status arrives as request r: the route and
\* getSystemStatus up to its first await. A fresh cache is returned at once
\* and the route answers; otherwise the fetches of all templates are issued.
\* (Requests are interchangeable: a new one is given the first number that
\* is free.)
StatusRequestFrom(r, rq) ==
    /\ IsStatusRoute(rq)
    /\ req[r].pc \in {"idle", "done"}
    /\ \A q \in 1..(r - 1) : req[q].pc \notin {"idle", "done"}
    /\ LET forceRefresh == rq.refresh = "true"
           now == clock
       IN  IF CacheFresh(forceRefresh, now)
           THEN req' = [req EXCEPT ![r] =
                          [IdleReq EXCEPT !.pc = "done",
                                          !.forceRefresh = forceRefresh,
                                          !.now = now,
                                          !.origin = OriginOf(rq),
                                          !.result = cachedSystemStatus,
                                          !.http = StatusCode(cachedSystemStatus),
                                          !.headers = corsHeaders(OriginOf(rq))]]
           ELSE req' = [req EXCEPT ![r] =
                          [IdleReq EXCEPT !.pc = "fetchTemplates",
                                          !.forceRefresh = forceRefresh,
                                          !.now = now,
                                          !.origin = OriginOf(rq),
                                          !.fetched = templatePaths]]
    /\ UNCHANGED <<clock, ticks, cachedSystemStatus, lastStatusCheck>>

\* GET /api/status[?refresh=true] without an Origin header
StatusRequest(r, forceRefresh) ==
    StatusRequestFrom(r, Request("GET", "/api/status", Null,
                                 IF forceRefresh THEN "true" ELSE ""))

\* a variant that caches a snapshot only if it is healthy
FinishCachingHealthy(r, outcomes, fontStatus, autotestResult, issues, status) ==
    LET snapshot == [status |-> status,
                     timestamp |-> clock,
                     templates |-> req[r].templateStatuses,
                     font |-> fontStatus,
                     autotest |-> autotestResult,
                     issues |-> IF Len(issues) > 0 THEN issues ELSE Undefined]
    IN  /\ IF status = "healthy"
           THEN cachedSystemStatus' = snapshot /\ lastStatusCheck' = req[r].now
           ELSE UNCHANGED <<cachedSystemStatus, lastStatusCheck>>
        /\ req' = [req EXCEPT ![r] =
                     [outcomes EXCEPT !.pc = "done",
                                      !.templateStatuses = <<>>,
                                      !.fontStatus = IdleReq.fontStatus,
                                      !.startTime = 0,
                                      !.result = snapshot,
                                      !.http = StatusCode(snapshot),
                                      !.headers = corsHeaders(outcomes.origin)]]

\* a variant that dates the cache from the completion of the computation
FinishDatedAtCompletion(r, outcomes, fontStatus, autotestResult, issues, status) ==
    LET snapshot == [status |-> status,
                     timestamp |-> clock,
                     templates |-> req[r].templateStatuses,
                     font |-> fontStatus,
                     autotest |-> autotestResult,
                     issues |-> IF Len(issues) > 0 THEN issues ELSE Undefined]
    IN  /\ cachedSystemStatus' = snapshot
        /\ lastStatusCheck' = clock
        /\ req' = [req EXCEPT ![r] =
                     [outcomes EXCEPT !.pc = "done",
                                      !.templateStatuses = <<>>,
                                      !.fontStatus = IdleReq.fontStatus,
                                      !.startTime = 0,
                                      !.result = snapshot,
                                      !.http = StatusCode(snapshot),
                                      !.headers = corsHeaders(outcomes.origin)]]

\* "Cache the status", return it, and the route's answer (the locals of the
\* call are gone with it)
Finish(r, outcomes, fontStatus, autotestResult, issues, status) ==
    LET snapshot == [status |-> status,
                     timestamp |-> clock,
                     templates |-> req[r].templateStatuses,
                     font |-> fontStatus,
                     autotest |-> autotestResult,
                     issues |-> IF Len(issues) > 0 THEN issues ELSE Undefined]
    IN  /\ cachedSystemStatus' = snapshot
        /\ lastStatusCheck' = req[r].now
        /\ req' = [req EXCEPT ![r] =
                     [outcomes EXCEPT !.pc = "done",
                                      !.templateStatuses = <<>>,
                                      !.fontStatus = IdleReq.fontStatus,
                                      !.startTime = 0,
                                      !.result = snapshot,
                                      !.http = StatusCode(snapshot),
                                      !.headers = corsHeaders(outcomes.origin)]]

\* a variant in which a fetch that fails leaves no entry
TemplatesFetchedDroppingFailures(r, conds) ==
    /\ req[r].pc = "fetchTemplates"
    /\ LET Exists(t) == t.exists
       IN  req' = [req EXCEPT ![r] =
                     [@ EXCEPT !.pc = "fetchFont",
                               !.templateOutcomes = conds,
                               !.templateStatuses =
                                   SelectSeq([i \in 1..Len(templatePaths) |->
                                                 TemplateStatusOf(templatePaths[i],
                                                                  conds[i])],
                                             Exists),
                               !.fetched = Append(@, fontPath)]]
    /\ UNCHANGED <<clock, ticks, cachedSystemStatus, lastStatusCheck>>

\* the Promise.all over the template fetches settles (conds[i] is what the
\* fetch of templatePaths[i] did); the font fetch is issued
TemplatesFetched(r, conds) ==
    /\ req[r].pc = "fetchTemplates"
    /\ req' = [req EXCEPT ![r] =
                 [@ EXCEPT !.pc = "fetchFont",
                           !.templateOutcomes = conds,
                           !.templateStatuses =
                               [i \in 1..Len(templatePaths) |->
                                   TemplateStatusOf(templatePaths[i], conds[i])],
                           !.fetched = Append(@, fontPath)]]
    /\ UNCHANGED <<clock, ticks, cachedSystemStatus, lastStatusCheck>>

\* the font fetch settles; the status is determined; runAutotest is started
\* if it is healthy so far, else the snapshot is cached and returned
FontFetched(r, c) ==
    /\ req[r].pc = "fetchFont"
    /\ LET fontStatus == FontStatusOf(c)
           templateStatuses == req[r].templateStatuses
           status == overallStatus(templateStatuses, fontStatus)
           seen == [req[r] EXCEPT !.fontOutcome = c]
       IN  IF status = "healthy"
           THEN /\ req' = [req EXCEPT ![r] =
                             [seen EXCEPT !.pc = "autotest",
                                          !.fontStatus = fontStatus,
                                          !.startTime = clock]]
                /\ UNCHANGED <<cachedSystemStatus, lastStatusCheck>>
           ELSE Finish(r, seen, fontStatus, NoAutotest,
                       issuesBefore(templateStatuses, fontStatus)
                           \o << <<"Autotest skipped due to missing or invalid files">> >>,
                       status)
    /\ UNCHANGED <<clock, ticks>>

\* a variant that reports a failed autotest without an issue
AutotestDoneSilent(r, outs) ==
    /\ req[r].pc = "autotest"
    /\ LET autotestResult == runAutotest(outs, clock - req[r].startTime)
           seen == [req[r] EXCEPT !.autotestOutcomes = outs]
       IN  Finish(r, seen, req[r].fontStatus, autotestResult,
                  issuesBefore(req[r].templateStatuses, req[r].fontStatus),
                  IF ~autotestResult.passed THEN "degraded" ELSE "healthy")
    /\ UNCHANGED <<clock, ticks>>

\* runAutotest returns (outs[i] is what generateReport did for testCases[i]);
\* the snapshot is cached and returned
AutotestDone(r, outs) ==
    /\ req[r].pc = "autotest"
    /\ LET autotestResult == runAutotest(outs, clock - req[r].startTime)
           seen == [req[r] EXCEPT !.autotestOutcomes = outs]
       IN  Finish(r, seen, req[r].fontStatus, autotestResult,
                  issuesBefore(req[r].templateStatuses, req[r].fontStatus)
                      \o (IF ~autotestResult.passed
                          THEN << <<"Autotest failed">> >> ELSE <<>>),
                  IF ~autotestResult.passed THEN "degraded" ELSE "healthy")
    /\ UNCHANGED <<clock, ticks>>

\* time passes
Tick(d) ==
    /\ ticks < MaxTicks
    /\ clock' = clock + d
    /\ ticks' = ticks + 1
    /\ UNCHANGED <<cachedSystemStatus, lastStatusCheck, req>>

-----------------------------------------------------------------------------
(* Requests *)

FormData(r1, r2, d, h, t1, t2, cat, loc) ==
    [referee_name_1 |-> r1, referee_name_2 |-> r2, match_date |-> d,
     starting_hour |-> h, team_1 |-> t1, team_2 |-> t2,
     age_category |-> cat, locality |-> loc,
     competition |-> Undefined, assistant_referee_1 |-> Undefined,
     assistant_referee_2 |-> Undefined, fourth_official |-> Undefined,
     stadium_name |-> Undefined, stadium_locality |-> Undefined]

NameInputs == {Undefined, <<" ">>, <<"A", " ", "B">>}
SecondNameInputs == {Undefined, <<" ", "\t">>, <<"C">>}
Team1Inputs == {<<>>, <<"T">>}
Team2Inputs == {<<"\n">>, <<"V">>}

GoodDate == <<"2", "0", "2", "5", "-", "1", "1", "-", "0", "4">>
GoodHour == <<"1", "4", ":", "0", "0">>

DateInputs ==
    { GoodDate,
      <<"2", "0", "2", "5", "-", "1", "3", "-", "4", "0">>,
      Undefined,
      <<"2", "0", "2", "5", "-", "1", "1", "-", "0", "4", "\n">>,
      <<"2", "0", "2", "5", "-", "1", "-", "0", "4">>,
      <<"2", "0", "2", "5", "/", "1", "1", "/", "0", "4">> }

HourInputs ==
    { GoodHour,
      <<"9", "9", ":", "9", "9">>,
      <<>>,
      <<" ", "1", "4", ":", "0", "0">>,
      <<"9", ":", "0", "0">> }

CategoryInputs ==
    { validCategories[i] : i \in 1..Len(validCategories) }
        \cup { <<"U", "1", "0">>, <<" ", "U", "9">>, Undefined }

LocalityInputs ==
    { Ilfov, frf, <<"C", "l", "u", "j">>, <<"i", "l", "f", "o", "v">>, Undefined }

ValidateInputs ==
    { FormData(r1, r2, d, h, t1, t2, cat, loc) :
        r1 \in NameInputs, r2 \in SecondNameInputs, d \in DateInputs,
        h \in HourInputs, t1 \in Team1Inputs, t2 \in Team2Inputs,
        cat \in CategoryInputs, loc \in LocalityInputs }

\* team names: plain, and with a dot, blanks, an ampersand, a slash, a
\* quote, an underscore and a line end
TeamInputs ==
    { <<<<"T">>, <<"V">>>>,
      << <<"C", ".", "S", " ", "&", "t", "/", "\"", "1">>,
         <<".", ".", "/", "v", "_", "2", "\n">> >> }

GenerateInputs ==
    { FormData(<<"A">>, r2, d, GoodHour, t[1], t[2], cat, loc) :
        t \in TeamInputs,
        r2 \in {Undefined, <<"C">>},
        d \in {GoodDate, <<"2", "0", "2", "5", "-", "1", "-", "0", "4">>},
        cat \in CategoryInputs, loc \in LocalityInputs }

-----------------------------------------------------------------------------
(* Specifications of the validator and of report generation *)

IdleStatus ==
    /\ clock = 0
    /\ ticks = 0
    /\ cachedSystemStatus = NullStatus
    /\ lastStatusCheck = 0
    /\ req = [r \in Reqs |-> IdleReq]

IdlePost ==
    /\ request = PostGenerate
    /\ validationError = NotRun
    /\ fetches = <<>>
    /\ doc = NoDoc
    /\ thrown = None
    /\ response = NoResponse

\* validateFormData applied to one request
InitValidate ==
    /\ formData \in ValidateInputs
    /\ pc = "received"
    /\ IdlePost
    /\ IdleStatus

NextValidate == Validate /\ UNCHANGED statusVars

SpecValidate == InitValidate /\ [][NextValidate]_vars

\* one POST /api/generate-report ("received"), or one direct call of
\* generateReport ("generate")
Init ==
    /\ \/ formData \in GenerateInputs /\ pc = "received"
       \/ /\ formData \in GenerateInputs /\ pc = "generate"
          /\ dateRegex(formData.match_date)
       \/ formData = BadJson /\ pc = "received"
    /\ IdlePost
    /\ IdleStatus

Next ==
    \/ ParseBody /\ UNCHANGED statusVars
    \/ Validate /\ UNCHANGED statusVars
    \/ GenerateReport /\ UNCHANGED statusVars
    \/ \E c \in AssetConditions : FetchTemplate(c) /\ UNCHANGED statusVars
    \/ \E n \in PageCounts : LoadTemplate(n) /\ UNCHANGED statusVars
    \/ \E c \in AssetConditions : FetchFont(c) /\ UNCHANGED statusVars
    \/ EmbedFont /\ UNCHANGED statusVars
    \/ \E o \in SaveOutcomes : DrawAndSave(o) /\ UNCHANGED statusVars
    \/ Respond200 /\ UNCHANGED statusVars
    \/ Respond500 /\ UNCHANGED statusVars

Spec == Init /\ [][Next]_vars

-----------------------------------------------------------------------------
(* Specifications of the status reporter *)

\* the index sets of at most MaxFaulty elements of 1..n
FewOf(n) == {S \in SUBSET (1..n) : Cardinality(S) <= MaxFaulty}

\* the vectors of length n that are `good' but at the indices of one such set
Outcomes(n, good, bad) ==
    UNION { { [i \in 1..n |-> IF i \in S THEN g[i] ELSE good] : g \in [S -> bad] } :
            S \in FewOf(n) }

\* what the template fetches of one status check can do
TemplateOutcomes == Outcomes(Len(templatePaths), "ok", AssetConditions \ {"ok"})

\* what the canned generations of one autotest can do
AutotestOutcomes == Outcomes(Len(testCases), "pdf", GenerationOutcomes \ {"pdf"})

IdleGenerate ==
    /\ formData = BadJson
    /\ pc = "done"
    /\ IdlePost

\* One status check from an empty cache, under every outcome of its fetches
\* and of its autotest.
InitClassify == IdleGenerate /\ IdleStatus

NextClassify ==
    \/ \E f \in BOOLEAN :
          /\ req[1].pc = "idle"
          /\ StatusRequest(1, f)
          /\ UNCHANGED postVars
    \/ \E conds \in TemplateOutcomes : TemplatesFetched(1, conds) /\ UNCHANGED postVars
    \/ \E c \in AssetConditions : FontFetched(1, c) /\ UNCHANGED postVars
    \/ \E outs \in AutotestOutcomes : AutotestDone(1, outs) /\ UNCHANGED postVars

SpecClassify == InitClassify /\ [][NextClassify]_vars

\* The outcomes the status checks meet while the cache is exercised: the
\* templates all well or the first one missing, the font well, the autotest
\* passing or its first generation throwing (a healthy, an unhealthy and a
\* degraded snapshot).
AllOk == [i \in 1..Len(templatePaths) |-> "ok"]

SomeTemplateOutcomes == { AllOk, [AllOk EXCEPT ![1] = "missing"] }

SomeFontOutcomes == {"ok"}

AllPdf == [i \in 1..Len(testCases) |-> "pdf"]

SomeAutotestOutcomes == { AllPdf, [AllPdf EXCEPT ![1] = "throw"] }

\* half the time to live
TickSteps == {30000}

\* Status requests, overlapping at their awaits, with time passing.
InitStatus == IdleGenerate /\ IdleStatus

NextStatus ==
    \/ \E r \in Reqs, f \in BOOLEAN : StatusRequest(r, f) /\ UNCHANGED postVars
    \/ \E r \in Reqs, conds \in SomeTemplateOutcomes :
          TemplatesFetched(r, conds) /\ UNCHANGED postVars
    \/ \E r \in Reqs, c \in SomeFontOutcomes : FontFetched(r, c) /\ UNCHANGED postVars
    \/ \E r \in Reqs, outs \in SomeAutotestOutcomes :
          AutotestDone(r, outs) /\ UNCHANGED postVars
    \/ \E d \in TickSteps : Tick(d) /\ UNCHANGED postVars

SpecStatus == InitStatus /\ [][NextStatus]_vars

\* Status computations that overlap: one request more than SpecStatus has,
\* every asset well, the autotest passing or failing.
Overlapping == 1..(MaxReqs + 1)

InitOverlap ==
    /\ IdleGenerate
    /\ clock = 0
    /\ ticks = 0
    /\ cachedSystemStatus = NullStatus
    /\ lastStatusCheck = 0
    /\ req = [r \in Overlapping |-> IdleReq]

NextOverlap ==
    \/ \E r \in Overlapping, f \in BOOLEAN : StatusRequest(r, f) /\ UNCHANGED postVars
    \/ \E r \in Overlapping : TemplatesFetched(r, AllOk) /\ UNCHANGED postVars
    \/ \E r \in Overlapping : FontFetched(r, "ok") /\ UNCHANGED postVars
    \/ \E r \in Overlapping, outs \in SomeAutotestOutcomes :
          AutotestDone(r, outs) /\ UNCHANGED postVars
    \/ \E d \in TickSteps : Tick(d) /\ UNCHANGED postVars

SpecOverlap == InitOverlap /\ [][NextOverlap]_vars

-----------------------------------------------------------------------------
(* Specification of the handler as a whole *)

\* Origin headers a request can carry
\* 'https://pr-7.ref-tool-frontend.pages.dev'
PreviewOrigin ==
    <<"h", "t", "t", "p", "s", ":", "/", "/", "p", "r", "-", "7", ".", "r",
      "e", "f", "-", "t", "o", "o", "l", "-", "f", "r", "o", "n", "t", "e",
      "n", "d", ".", "p", "a", "g", "e", "s", ".", "d", "e", "v">>
\* 'https://www.cristeavictor.xyz'
SubdomainOrigin ==
    <<"h", "t", "t", "p", "s", ":", "/", "/", "w", "w", "w", ".", "c", "r",
      "i", "s", "t", "e", "a", "v", "i", "c", "t", "o", "r", ".", "x", "y",
      "z">>
\* 'https://example.com'
ForeignOrigin ==
    <<"h", "t", "t", "p", "s", ":", "/", "/", "e", "x", "a", "m", "p", "l",
      "e", ".", "c", "o", "m">>
\* 'http://www.cristeavictor.xyz'
PlainHttpSubdomain ==
    <<"h", "t", "t", "p", ":", "/", "/", "w", "w", "w", ".", "c", "r", "i",
      "s", "t", "e", "a", "v", "i", "c", "t", "o", "r", ".", "x", "y", "z">>
\* 'https://evilcristeavictor.xyz'
LookalikeOrigin ==
    <<"h", "t", "t", "p", "s", ":", "/", "/", "e", "v", "i", "l", "c", "r",
      "i", "s", "t", "e", "a", "v", "i", "c", "t", "o", "r", ".", "x", "y",
      "z">>
\* 'http://ref-tool-frontend.example.pages.dev'
ProjectNamedOrigin ==
    <<"h", "t", "t", "p", ":", "/", "/", "r", "e", "f", "-", "t", "o", "o",
      "l", "-", "f", "r", "o", "n", "t", "e", "n", "d", ".", "e", "x", "a",
      "m", "p", "l", "e", ".", "p", "a", "g", "e", "s", ".", "d", "e", "v">>

OriginInputs ==
    { Null, <<>>, PagesProject, LocalDev, SiteApex, ReportsSite, PreviewOrigin,
      SubdomainOrigin, ForeignOrigin, PlainHttpSubdomain, LookalikeOrigin,
      ProjectNamedOrigin }

MethodInputs == {"GET", "POST", "OPTIONS", "PUT"}

PathInputs ==
    {"/", "/health", "/api/status", "/api/generate-report", "/api/status/",
     "/favicon.ico"}

\* the refresh parameter is read by the status route only
RequestInputs ==
    { Request(m, pn, o, f) :
        m \in MethodInputs, pn \in PathInputs, o \in OriginInputs,
        f \in {"", "true", "1"} }
    \ { rq \in [method : MethodInputs, pathname : PathInputs,
                 origin : OriginInputs, refresh : {"true", "1"}] :
            rq.pathname # "/api/status" }

\* bodies of a POST /api/generate-report: one that validates, one that does
\* not, one that is no JSON
BodyInputs ==
    { FormData(<<"A">>, Undefined, GoodDate, GoodHour, <<"T">>, <<"V">>, U9, Ilfov),
      FormData(<<"A">>, Undefined, GoodDate, GoodHour, <<"T">>, <<"V">>, U11, Ilfov),
      BadJson }

\* the status route calls getSystemStatus and awaits it
StatusRoute ==
    /\ pc = "received"
    /\ StatusRequestFrom(1, request)
    /\ pc' = "status"
    /\ UNCHANGED <<request, formData, validationError, fetches, doc, thrown,
                   response>>

\* One call of the handler, for every request.
InitFetch ==
    /\ request \in RequestInputs
    /\ formData \in (IF IsGenerateRoute(request) THEN BodyInputs ELSE {BadJson})
    /\ pc = "received"
    /\ validationError = NotRun
    /\ fetches = <<>>
    /\ doc = NoDoc
    /\ thrown = None
    /\ response = NoResponse
    /\ IdleStatus

NextFetch ==
    \/ Preflight /\ UNCHANGED statusVars
    \/ StatusRoute
    \/ HealthRoute /\ UNCHANGED statusVars
    \/ NotFound /\ UNCHANGED statusVars
    \/ ParseBody /\ UNCHANGED statusVars
    \/ Validate /\ UNCHANGED statusVars
    \/ GenerateReport /\ UNCHANGED statusVars
    \/ \E c \in {"ok", "missing"} : FetchTemplate(c) /\ UNCHANGED statusVars
    \/ \E n \in PageCounts : LoadTemplate(n) /\ UNCHANGED statusVars
    \/ \E c \in {"ok", "missing"} : FetchFont(c) /\ UNCHANGED statusVars
    \/ EmbedFont /\ UNCHANGED statusVars
    \/ \E o \in {"pdf", "throw"} : DrawAndSave(o) /\ UNCHANGED statusVars
    \/ Respond200 /\ UNCHANGED statusVars
    \/ Respond500 /\ UNCHANGED statusVars
    \/ \E conds \in SomeTemplateOutcomes :
          TemplatesFetched(1, conds) /\ UNCHANGED postVars
    \/ \E c \in SomeFontOutcomes : FontFetched(1, c) /\ UNCHANGED postVars
    \/ \E outs \in SomeAutotestOutcomes :
          AutotestDone(1, outs) /\ UNCHANGED postVars

SpecFetch == InitFetch /\ [][NextFetch]_vars

-----------------------------------------------------------------------------
(* Specification of the overlays of a report *)

\* a request body with its optional fields
WithOptional(fd, opt) ==
    [fd EXCEPT !.competition = opt[1],
               !.assistant_referee_1 = opt[2],
               !.assistant_referee_2 = opt[3],
               !.fourth_official = opt[4],
               !.stadium_name = opt[5],
               !.stadium_locality = opt[6]]

\* dates of the shape dddd-dd-dd: an ordinary day, a day of a year below
\* 1000, a leap day, a 30th of February, a 13th month
OverlayDateInputs ==
    { <<"2", "0", "2", "5", "-", "1", "1", "-", "0", "4">>,
      <<"0", "9", "9", "9", "-", "0", "2", "-", "2", "8">>,
      <<"2", "0", "2", "4", "-", "0", "2", "-", "2", "9">>,
      <<"2", "0", "2", "5", "-", "0", "2", "-", "3", "0">>,
      <<"2", "0", "2", "5", "-", "1", "3", "-", "0", "1">> }

\* the optional fields (competition, the two assistant referees, the fourth
\* official, stadium name and locality): all absent, all given, and some
\* given as an empty or a blank text
OptionalInputs ==
    { <<Undefined, Undefined, Undefined, Undefined, Undefined, Undefined>>,
      <<<<"L", "1">>, <<"D">>, <<"E">>, <<"F">>, <<"S">>, <<"O">>>>,
      <<<<" ", " ">>, <<>>, <<"E">>, <<"\t">>, <<"S">>, Undefined>> }

\* team names: plain, and a first team whose name is one blank (which the
\* validator refuses)
OverlayTeamInputs == { <<<<"T">>, <<"V">>>>, <<<<" ">>, <<"V">>>> }

OverlayInputs ==
    { WithOptional(FormData(<<"A">>, r2, d, GoodHour, t[1], t[2], cat, loc), opt) :
        r2 \in {Undefined, <<"C">>}, d \in OverlayDateInputs, t \in OverlayTeamInputs,
        cat \in { validCategories[i] : i \in 1..Len(validCategories) },
        loc \in { SUPPORTED_LOCALITIES[i] : i \in 1..Len(SUPPORTED_LOCALITIES) },
        opt \in OptionalInputs }

\* POST /api/generate-report with each of these bodies, and with a body
\* that is no JSON
InitOverlays ==
    /\ formData \in OverlayInputs \cup {BadJson}
    /\ pc = "received"
    /\ IdlePost
    /\ IdleStatus

NextOverlays ==
    \/ ParseBody /\ UNCHANGED statusVars
    \/ Validate /\ UNCHANGED statusVars
    \/ GenerateReport /\ UNCHANGED statusVars
    \/ \E c \in {"ok", "missing"} : FetchTemplate(c) /\ UNCHANGED statusVars
    \/ \E n \in PageCounts : LoadTemplate(n) /\ UNCHANGED statusVars
    \/ \E c \in {"ok", "missing"} : FetchFont(c) /\ UNCHANGED statusVars
    \/ EmbedFont /\ UNCHANGED statusVars
    \/ DrawAndSave("pdf") /\ UNCHANGED statusVars
    \/ Respond200 /\ UNCHANGED statusVars
    \/ Respond500 /\ UNCHANGED statusVars

SpecOverlays == InitOverlays /\ [][NextOverlays]_vars

-----------------------------------------------------------------------------
(* The validator's rules as the specification words them, and what is
   registered *)

Blank(v) == v = Undefined \/ \A i \in 1..Len(v) : v[i] \in WhiteSpace

\* the characters of s with every digit replaced by "d"
Shape(s) == [i \in 1..Len(s) |-> IF s[i] \in Digit THEN "d" ELSE s[i]]

DateShaped(s) == Shape(s) = <<"d", "d", "d", "d", "-", "d", "d", "-", "d", "d">>
TimeShaped(s) == Shape(s) = <<"d", "d", ":", "d", "d">>

\* the (locality, category) pair is in the template registry
Registered(loc, cat) ==
    \E i \in 1..Len(LOCALITY_TEMPLATES) :
        /\ LOCALITY_TEMPLATES[i].key = loc
        /\ \E j \in 1..Len(LOCALITY_TEMPLATES[i].value) :
               LOCALITY_TEMPLATES[i].value[j].key = cat

\* rules 1..7: the required fields in the stated order; 8: category in the
\* global list; 9: locality supported; 10: category registered for the
\* locality; 11: second referee for U11/U13; 12: date pattern; 13: time pattern
ViolatedRules(fd) ==
    {n \in 1..7 : Blank(fd[required[n]])}
        \cup (IF fd.age_category \in {validCategories[i] : i \in 1..13}
              THEN {} ELSE {8})
        \cup (IF fd.locality \in {Ilfov, frf} THEN {} ELSE {9})
        \cup (IF Registered(fd.locality, fd.age_category) THEN {} ELSE {10})
        \cup (IF fd.age_category \in {U11, U13} /\ Blank(fd.referee_name_2)
              THEN {11} ELSE {})
        \cup (IF DateShaped(fd.match_date) THEN {} ELSE {12})
        \cup (IF TimeShaped(fd.starting_hour) THEN {} ELSE {13})

FirstViolated(fd) ==
    CHOOSE n \in ViolatedRules(fd) : \A m \in ViolatedRules(fd) : n <= m

\* the first element of the message each rule answers with
RuleMessage(n) ==
    IF n <= 7 THEN "Missing required field: "
    ELSE IF n = 8 THEN "Invalid age category. Must be one of: "
    ELSE IF n = 9 THEN "Invalid locality. Must be one of: "
    ELSE IF n = 10 THEN "Age category "
    ELSE IF n = 11 THEN "referee_name_2 is required for U11 and U13 categories"
    ELSE IF n = 12 THEN "match_date must be in YYYY-MM-DD format"
    ELSE "starting_hour must be in HH:MM format"

Validated == formData # BadJson /\ validationError # NotRun

\* C1: validateFormData answers with the message of the first violated rule
\* in the stated order (for a missing field, naming the first missing field),
\* one message only, and with null exactly when no rule is violated.
C1_FirstFailureWins ==
    Validated =>
        IF ViolatedRules(formData) = {}
        THEN validationError = Null
        ELSE LET n == FirstViolated(formData)
             IN  /\ validationError # Null
                 /\ validationError[1] = RuleMessage(n)
                 /\ n <= 7 => validationError = <<RuleMessage(n), required[n]>>

\* a request that breaks the second-referee rule, the date rule and the time
\* rule, answered with the second-referee message
C1_Witness ==
    /\ Validated
    /\ {11, 12, 13} \subseteq ViolatedRules(formData)
    /\ FirstViolated(formData) = 11
    /\ validationError = <<"referee_name_2 is required for U11 and U13 categories">>

\* C2: a request that passed validation has a registered template, and its
\* generation never throws 'No template found'.
C2_ValidatedHasTemplate ==
    (formData # BadJson /\ validationError = Null) =>
        /\ Registered(formData.locality, formData.age_category)
        /\ templateFilename(formData) # Undefined
        /\ thrown[1] # "No template found for "

\* a validated request past generateReport's template check
C2_Witness ==
    /\ formData # BadJson
    /\ validationError = Null
    /\ pc = "fetchTemplate"

\* the fields the pair requires: the seven base fields, and referee_name_2
\* for U11 and U13
RequiredFor(cat) ==
    {required[i] : i \in 1..7}
        \cup (IF cat \in {U11, U13} THEN {"referee_name_2"} ELSE {})

\* C3: for a registered pair and a well-formed date and time, the request is
\* accepted exactly when none of the fields the pair requires is blank.
C3_RequiredFieldsDecide ==
    ( /\ Validated
      /\ Registered(formData.locality, formData.age_category)
      /\ Blank(formData.match_date) \/ DateShaped(formData.match_date)
      /\ Blank(formData.starting_hour) \/ TimeShaped(formData.starting_hour) )
    =>
        ( validationError = Null
            <=> \A f \in RequiredFor(formData.age_category) : ~Blank(formData[f]) )

\* a U13 request of frf, complete but for the second referee, is rejected
C3_Witness ==
    /\ Validated
    /\ formData.locality = frf /\ formData.age_category = U13
    /\ \A f \in {required[i] : i \in 1..7} : ~Blank(formData[f])
    /\ DateShaped(formData.match_date) /\ TimeShaped(formData.starting_hour)
    /\ Blank(formData.referee_name_2)
    /\ validationError = <<"referee_name_2 is required for U11 and U13 categories">>

\* C4: date and time are checked by shape alone: a request that passes the
\* other rules is accepted exactly when both have the shape, whatever the
\* digits; a shaped value never draws its format message.
C4_PatternOnly ==
    Validated =>
        /\ DateShaped(formData.match_date)
              => validationError # <<"match_date must be in YYYY-MM-DD format">>
        /\ TimeShaped(formData.starting_hour)
              => validationError # <<"starting_hour must be in HH:MM format">>
        /\ ViolatedRules(formData) \cap (1..11) = {}
              => ( validationError = Null
                     <=> /\ DateShaped(formData.match_date)
                         /\ TimeShaped(formData.starting_hour) )

\* month 13, day 40 at 99:99 is accepted
C4_Witness ==
    /\ Validated
    /\ formData.match_date = <<"2", "0", "2", "5", "-", "1", "3", "-", "4", "0">>
    /\ formData.starting_hour = <<"9", "9", ":", "9", "9">>
    /\ validationError = Null

\* C5: generateReport, given a pair that is not in the registry, throws
\* 'No template found' and has fetched no asset, template or font.
C5_UnregisteredNoFetch ==
    ( /\ formData # BadJson
      /\ ~Registered(formData.locality, formData.age_category) )
    =>
        /\ fetches = <<>>
        /\ pc \in {"received", "generate", "failed", "done"}
        /\ (pc = "failed" \/ (pc = "done" /\ validationError = Null))
              => /\ thrown = <<"No template found for ", formData.locality, "/",
                               formData.age_category>>
                 /\ doc = NoDoc

\* generateReport called directly with a supported locality and a category the
\* locality has no template for: it has thrown, and nothing was fetched
C5_Witness ==
    /\ formData # BadJson
    /\ validationError = NotRun
    /\ formData.locality = Ilfov /\ formData.age_category = U12
    /\ pc = "failed"
    /\ thrown[1] = "No template found for "
    /\ fetches = <<>>

\* C6: a POST is answered with exactly one of 400 (JSON, the validation
\* message), 500 (JSON, the error) and 200 (application/pdf, the document as
\* save() returned it after the template was loaded and the font embedded);
\* once a step of the generation has failed the answer is the 500.
C6_AllOrNothing ==
    /\ response # NoResponse =>
         \/ /\ response.status = 400
            /\ response.contentType = "application/json"
            /\ validationError \notin {Null, NotRun}
            /\ response.body.details = validationError
            /\ fetches = <<>> /\ doc = NoDoc
         \/ /\ response.status = 500
            /\ response.contentType = "application/json"
            /\ thrown # None
            /\ response.body.details = thrown
            /\ doc.saved = "none"
         \/ /\ response.status = 200
            /\ response.contentType = "application/pdf"
            /\ thrown = None
            /\ validationError = Null
            /\ response.body = doc
            /\ doc.template \in {"ok", "modified"}
            /\ doc.font \in {"ok", "modified"}
            /\ doc.saved \in SaveOutcomes \ {"throw"}
            /\ Len(fetches) = 2
    /\ (thrown # None /\ response # NoResponse) => response.status = 500
    /\ (pc = "done") <=> (response # NoResponse)

\* the font fetch failed after the template had been fetched and loaded: the
\* answer is the 500, with no document in it
C6_Witness ==
    /\ response # NoResponse
    /\ response.status = 500
    /\ doc.template = "ok"
    /\ Len(fetches) = 2
    /\ thrown = FontNotFound

-----------------------------------------------------------------------------
(* The status cache, the classification and the status route *)

\* a status request arrives as request r in this step
Arrives(r) == req[r].pc \in {"idle", "done"} /\ req'[r] # req[r]

\* getSystemStatus returns to request r in this step after computing
Computed(r) == req[r].pc \notin {"idle", "done"} /\ req'[r].pc = "done"

\* C7: a call without forceRefresh that arrives when a computed status is
\* cached and less than 60000 ms have passed since its refresh time returns
\* that very snapshot at once: nothing is fetched, no autotest is run, and
\* cachedSystemStatus and lastStatusCheck are left as they were.
C7_CachedWithinTtl ==
    [][ \A r \in Reqs :
          ( /\ Arrives(r)
            /\ ~req'[r].forceRefresh
            /\ cachedSystemStatus # NullStatus
            /\ clock - lastStatusCheck < 60000 )
          =>
            /\ req'[r].pc = "done"
            /\ req'[r].result = cachedSystemStatus
            /\ req'[r].fetched = <<>>
            /\ req'[r].templateOutcomes = <<>>
            /\ req'[r].autotestOutcomes = <<>>
            /\ cachedSystemStatus' = cachedSystemStatus
            /\ lastStatusCheck' = lastStatusCheck ]_vars

\* a call without forceRefresh was answered from a cache 30000 ms old, with
\* the snapshot that is still cached, and fetched nothing
C7_Witness ==
    \E r \in Reqs :
        /\ req[r].pc = "done"
        /\ ~req[r].forceRefresh
        /\ req[r].now - lastStatusCheck = 30000
        /\ req[r].fetched = <<>>
        /\ req[r].result # NullStatus
        /\ req[r].result = cachedSystemStatus
        /\ req[r].result.timestamp < req[r].now

\* C8: a call with forceRefresh issues the fetch of every template whatever
\* is cached and however old it is; when it returns it has fetched every
\* template and the font, its snapshot carries the time of its completion
\* (not before the call began), and cachedSystemStatus holds that snapshot
\* and lastStatusCheck the time the call read on entry.
C8_ForcedRefreshes ==
    [][ \A r \in Reqs :
          /\ (Arrives(r) /\ req'[r].forceRefresh) =>
                /\ req'[r].pc = "fetchTemplates"
                /\ req'[r].fetched = templatePaths
                /\ req'[r].now = clock
          /\ (Computed(r) /\ req'[r].forceRefresh) =>
                /\ req'[r].fetched = Append(templatePaths, fontPath)
                /\ req'[r].result.timestamp = clock'
                /\ req'[r].result.timestamp >= req'[r].now
                /\ cachedSystemStatus' = req'[r].result
                /\ lastStatusCheck' = req'[r].now ]_vars

\* a call with forceRefresh that began 30000 ms after the start has returned:
\* everything was fetched, and the cache holds its snapshot and its entry time
C8_Witness ==
    \E r \in Reqs :
        /\ req[r].pc = "done"
        /\ req[r].forceRefresh
        /\ req[r].now = 30000
        /\ req[r].fetched = Append(templatePaths, fontPath)
        /\ req[r].result.timestamp >= 30000
        /\ cachedSystemStatus = req[r].result
        /\ lastStatusCheck = 30000

\* what a fetch did to an asset: it is missing (not ok, or the fetch threw),
\* or its digest differs from the baseline
AssetFaulty(c) == c \in {"missing", "error"} \/ c \in {"modified", "corrupt"}

\* a canned generation threw, returned no bytes, or bytes that are no PDF
GenerationFaulty(o) == o = "throw" \/ o = "empty" \/ o = "garbage"

\* the classification as the specification words it, from what the fetches
\* and the canned generations of one computation did
Classification(r) ==
    IF \/ \E i \in 1..Len(req[r].templateOutcomes) :
              AssetFaulty(req[r].templateOutcomes[i])
       \/ AssetFaulty(req[r].fontOutcome)
    THEN "unhealthy"
    ELSE IF \E i \in 1..Len(req[r].autotestOutcomes) :
                GenerationFaulty(req[r].autotestOutcomes[i])
    THEN "degraded"
    ELSE "healthy"

\* C9: a computed snapshot is 'unhealthy' if a template or the font is
\* missing or differs from its baseline, otherwise 'degraded' if a canned
\* generation of the autotest threw or returned bytes that are empty or no
\* PDF, otherwise 'healthy'; the autotest has run exactly when no asset was
\* at fault, and forceRefresh plays no part.
C9_Classification ==
    \A r \in Reqs :
        (req[r].pc = "done" /\ req[r].fetched # <<>>) =>
            /\ Len(req[r].templateOutcomes) = Len(templatePaths)
            /\ req[r].fontOutcome \in AssetConditions
            /\ req[r].result.status = Classification(r)
            /\ (req[r].result.status = "unhealthy") <=> (req[r].autotestOutcomes = <<>>)
            /\ (req[r].result.status = "unhealthy") <=> (req[r].result.autotest = NoAutotest)

\* every template is as released and the font's bytes were modified: the
\* computed snapshot is 'unhealthy'
C9_Witness ==
    \E r \in Reqs :
        /\ req[r].pc = "done"
        /\ req[r].templateOutcomes = AllOk
        /\ req[r].fontOutcome = "modified"
        /\ req[r].result.status = "unhealthy"

\* C10: GET /api/status answers 200 exactly when the snapshot it returns is
\* 'healthy' and 503 when it is 'degraded' or 'unhealthy', whether the
\* snapshot was computed or taken from the cache; it does not answer 500,
\* getSystemStatus having returned.
C10_StatusCode ==
    \A r \in Reqs :
        req[r].pc = "done" =>
            /\ req[r].result.status \in {"healthy", "degraded", "unhealthy"}
            /\ (req[r].http = 200) <=> (req[r].result.status = "healthy")
            /\ (req[r].http = 503) <=> (req[r].result.status \in {"degraded", "unhealthy"})
            /\ req[r].http # 500

\* a 'degraded' snapshot taken from the cache is answered with 503
C10_Witness ==
    \E r \in Reqs :
        /\ req[r].pc = "done"
        /\ req[r].fetched = <<>>
        /\ req[r].result.status = "degraded"
        /\ req[r].http = 503

-----------------------------------------------------------------------------
(* The autotest's coverage, and how long the cache lasts *)

\* the (locality, category) pairs that have a template
RegisteredPairs ==
    UNION { { <<LOCALITY_TEMPLATES[i].key, LOCALITY_TEMPLATES[i].value[j].key>> :
                j \in 1..Len(LOCALITY_TEMPLATES[i].value) } :
            i \in 1..Len(LOCALITY_TEMPLATES) }

\* the pairs the autotest of request r generated a report for
GeneratedPairs(r) ==
    { <<testCases[i].locality, testCases[i].age_category>> :
        i \in 1..Len(req[r].autotestOutcomes) }

\* C11: the autotest of a status check generates a report for every
\* (locality, category) pair that has a template, so that a computed
\* 'healthy' snapshot means every registered pair was generated.
C11_EveryPairTested ==
    \A r \in Reqs :
        ( /\ req[r].pc = "done"
          /\ req[r].fetched # <<>>
          /\ req[r].result.status = "healthy" )
        => RegisteredPairs \subseteq GeneratedPairs(r)

-----------------------------------------------------------------------------
(* The handler's responses: CORS, routing, the file name *)

\* the handler call under way has returned its Response
Answered == response # NoResponse \/ (pc = "status" /\ req[1].pc = "done")

\* the status and the headers of that Response
AnswerStatus == IF response # NoResponse THEN response.status ELSE req[1].http

AnswerHeaders == IF response # NoResponse THEN response.headers ELSE req[1].headers

\* which of the handler's returns produced the Response
AnswerKind ==
    IF response = NoResponse THEN "status"
    ELSE IF response.contentType = "none" THEN "preflight"
    ELSE IF response.status = 404 THEN "not found"
    ELSE IF response.status = 400 THEN "invalid"
    ELSE IF response.status = 500 THEN "error"
    ELSE IF response.contentType = "application/pdf" THEN "report"
    ELSE "health"

\* the allow-list as the handler's comment words it: the four exact
\* origins, the apex of the site, an https origin under the Pages project
\* or under the site, and a .pages.dev origin that names the project
OnAllowList(o) ==
    \/ o \in {PagesProject, ReportsSite, LocalDev, WranglerDev, SiteApex}
    \/ /\ Len(o) > Len(HttpsScheme)
       /\ SubSeq(o, 1, Len(HttpsScheme)) = HttpsScheme
       /\ \E suf \in {PagesPreviewSuffix, SiteSuffix} :
             /\ Len(o) >= Len(suf)
             /\ SubSeq(o, Len(o) - Len(suf) + 1, Len(o)) = suf
    \/ /\ Len(o) >= Len(PagesSuffix)
       /\ SubSeq(o, Len(o) - Len(PagesSuffix) + 1, Len(o)) = PagesSuffix
       /\ \E i \in 1..Len(o) :
             /\ i + Len(ProjectName) - 1 <= Len(o)
             /\ SubSeq(o, i, i + Len(ProjectName) - 1) = ProjectName

ListedRoute(rq) ==
    \/ rq.method = "OPTIONS"
    \/ rq.method = "GET" /\ rq.pathname \in {"/", "/health", "/api/status"}
    \/ rq.method = "POST" /\ rq.pathname = "/api/generate-report"

\* C13: a request that is none of the listed routes is answered with 404
\* and the body 'Not Found'.
C13_UnlistedIs404 ==
    (Answered /\ ~ListedRoute(request)) =>
        /\ AnswerStatus = 404
        /\ response # NoResponse
        /\ response.body = <<"Not Found">>

\* the characters of a file name: letters, digits, '_' and '.'
FileNameChars == Alnum \cup {"_", "."}

\* s without the characters that are no letters or digits
RECURSIVE AlnumOnly(_)
AlnumOnly(s) ==
    IF s = <<>> THEN <<>>
    ELSE (IF Head(s) \in Alnum THEN <<Head(s)>> ELSE <<>>) \o AlnumOnly(Tail(s))

\* the file name in a Content-Disposition header
FileNameIn(disposition) == SubSeq(disposition, 2, Len(disposition) - 1)

\* C14: the file name of a generated report is 'referee_report_', the
\* category, '_', team_1 without its non-alphanumeric characters, '_vs_',
\* team_2 likewise, '_', the eight digits of the date and '.pdf'; it holds
\* only letters, digits, '_' and '.'.
C14_FileName ==
    (response # NoResponse /\ response.status = 200) =>
        LET name == FileNameIn(Get(response.headers, "Content-Disposition"))
            d == formData.match_date
        IN  /\ name = ReportPrefix \o formData.age_category \o <<"_">>
                         \o AlnumOnly(formData.team_1) \o VersusInfix
                         \o AlnumOnly(formData.team_2) \o <<"_">>
                         \o <<d[1], d[2], d[3], d[4], d[6], d[7], d[9], d[10]>>
                         \o PdfSuffix
            /\ \A i \in 1..Len(name) : name[i] \in FileNameChars
            /\ Get(response.headers, "Content-Disposition")
                  = AttachmentPrefix \o name \o <<"\"">>

\* a report for teams 'C.S &t/"1' and '../v_2': the name holds CSt1 and v2
C14_Witness ==
    /\ response # NoResponse
    /\ response.status = 200
    /\ formData.team_1 = <<"C", ".", "S", " ", "&", "t", "/", "\"", "1">>
    /\ \E i \in 1..Len(Get(response.headers, "Content-Disposition")) :
          SubSeq(Get(response.headers, "Content-Disposition"), i, i + 10)
              = <<"C", "S", "t", "1", "_", "v", "s", "_", "v", "2", "_">>

-----------------------------------------------------------------------------
(* The overlays of a report: dates, literal fields, blank texts *)

\* generateReport has computed the overlays of the request
OverlaysComputed == doc.path # None

\* the placements configured for the request's locality and category
Placements ==
    LET items == Get(Get(OVERLAY_CONFIGS, formData.locality),
                     formData.age_category).overlays
    IN  { items[i] : i \in 1..Len(items) }

\* the texts resolved for a placement: those of the overlays at its
\* position (none when the overlay was dropped)
TextsAt(item) ==
    { doc.overlays[i].text : i \in
        { j \in 1..Len(doc.overlays) :
            /\ doc.overlays[j].x = item.x
            /\ doc.overlays[j].y = item.y
            /\ doc.overlays[j].page = item.page } }

\* d, of the shape dddd-dd-dd, names a day of the calendar
CalendarDate(d) ==
    LET Two(a, b) == DigitVal(a) * 10 + DigitVal(b)
        y == Two(d[1], d[2]) * 100 + Two(d[3], d[4])
        m == Two(d[6], d[7])
        leap == y % 4 = 0 /\ (y % 100 # 0 \/ y % 400 = 0)
        last == IF m = 2 THEN (IF leap THEN 29 ELSE 28)
                ELSE IF m \in {4, 6, 9, 11} THEN 30 ELSE 31
    IN  m \in 1..12 /\ Two(d[9], d[10]) \in 1..last

\* DD.MM.YYYY and DD, five spaces, MM of a date YYYY-MM-DD
LongDate(d) ==
    <<d[9], d[10], ".", d[6], d[7], ".", d[1], d[2], d[3], d[4]>>

ShortDate(d) == <<d[9], d[10], " ", " ", " ", " ", " ", d[6], d[7]>>

\* C16: for every well-formed calendar date YYYY-MM-DD, formatDate with
\* category U15 returns DD.MM.YYYY and with category U9 returns DD, exactly
\* five spaces and MM, whatever else the request holds.
C16_FormatByCategory ==
    (OverlaysComputed /\ CalendarDate(formData.match_date)) =>
        \A item \in Placements :
            item.field = "formatted_date" =>
                /\ formData.age_category = U15 =>
                      TextsAt(item) = {LongDate(formData.match_date)}
                /\ formData.age_category = U9 =>
                      TextsAt(item) = {ShortDate(formData.match_date)}

\* the pairs whose layout is the long form: officials, locality boxes,
\* competition, stadium and a date on page 4
LongFormPairs ==
    {<<Ilfov, U15>>}
        \cup { <<frf, cat>> :
                 cat \in {U14, U15, U16, U17, U17F, LIGA2, LIGA3, LIGAT, CN} }

\* the younger categories, whose templates are the short form
ShortFormCategories == {U9, U11, U13}

\* C17: for every registered pair whose layout is the long form, every
\* formatted-date overlay is DD.MM.YYYY; DD, five spaces, MM is produced
\* only for the short-form templates of U9, U11 and U13.
C17_LongFormLongDate ==
    (OverlaysComputed /\ CalendarDate(formData.match_date)) =>
        \A item \in Placements :
            item.field = "formatted_date" =>
                /\ <<formData.locality, formData.age_category>> \in LongFormPairs
                      => TextsAt(item) = {LongDate(formData.match_date)}
                /\ ShortDate(formData.match_date) \in TextsAt(item)
                      => formData.age_category \in ShortFormCategories

\* the field tags that are request fields
RequestFieldTags ==
    {"referee_name_1", "referee_name_2", "assistant_referee_1",
     "assistant_referee_2", "fourth_official", "team_1", "team_2",
     "starting_hour", "competition", "stadium_name", "stadium_locality"}

\* the value of a request field, the empty text when it is absent
FieldOrEmpty(field) ==
    IF formData[field] = Undefined THEN <<>> ELSE formData[field]

\* C18: for every placement whose tag is a request field the text is the
\* value of that field, or the empty text when the field is absent (and
\* then there is no overlay); the two referee names joined by two spaces
\* are the text of the combined tag only, which one pair uses.
C18_LiteralFieldText ==
    OverlaysComputed =>
        \A item \in Placements :
            /\ item.field \in RequestFieldTags =>
                  TextsAt(item) = IF FieldOrEmpty(item.field) = <<>> THEN {}
                                  ELSE {FieldOrEmpty(item.field)}
            /\ item.field = "refs" =>
                  <<formData.locality, formData.age_category>> = <<frf, U11>>

\* applyOverlays has drawn the overlays and saved the document
DrawsDone == doc.saved # "none"

\* the drawText calls made at a placement
CallsAt(item) ==
    { i \in 1..Len(doc.drawn) :
        /\ doc.drawn[i].x = item.x
        /\ doc.drawn[i].y = item.y
        /\ doc.drawn[i].page = item.page }

\* C19: no blank text is ever drawn: a placement whose resolved text is
\* empty or only white space gets no drawText call, and a placement whose
\* resolved text is not blank and whose page exists gets exactly one, with
\* that text, at its configured position, in size 13.
C19_NoBlankDraw ==
    DrawsDone =>
        /\ \A i \in 1..Len(doc.drawn) : ~Blank(doc.drawn[i].text)
        /\ \A item \in Placements :
              LET text == overlayText(item, formData)
              IN  /\ Blank(text) => CallsAt(item) = {}
                  /\ item.page >= doc.pages => CallsAt(item) = {}
                  /\ (~Blank(text) /\ item.page < doc.pages) =>
                        /\ Cardinality(CallsAt(item)) = 1
                        /\ \A i \in CallsAt(item) :
                              /\ doc.drawn[i].text = text
                              /\ doc.drawn[i].size = 13

\* a long-form report for a competition given as two blanks and a fourth
\* official given as a tab, on a document of five pages: neither is drawn,
\* the match line and the date on page 4 are
C19_Witness ==
    /\ DrawsDone
    /\ doc.pages = 5
    /\ formData.competition = <<" ", " ">>
    /\ formData.fourth_official = <<"\t">>
    /\ \E item \in Placements :
          item.field = "fourth_official" /\ CallsAt(item) = {}
    /\ \E item \in Placements :
          item.field = "competition" /\ CallsAt(item) = {}
    /\ \E item \in Placements :
          item.field = "match_vs" /\ Cardinality(CallsAt(item)) = 1
    /\ \E item \in Placements :
          /\ item.field = "formatted_date" /\ item.page = 4
          /\ Cardinality(CallsAt(item)) = 1

-----------------------------------------------------------------------------
(* A missing asset *)

\* the asset the collaborator did not have, if there is one
AssetMissing == doc.template = "missing" \/ doc.font = "missing"

MissingPath == IF doc.template = "missing" THEN doc.path ELSE fontPath

\* text s holds text sub
Contains(s, sub) ==
    \E i \in 1..(Len(s) - Len(sub) + 1) : SubSeq(s, i, i + Len(sub) - 1) = sub

\* C20: when generation fails because the template or the font is missing
\* from the asset collaborator, the answer is a 500 whose message holds the
\* path of the missing asset, for the template and for the font alike.
C20_MissingPathInMessage ==
    (response # NoResponse /\ AssetMissing) =>
        /\ response.status = 500
        /\ Contains(response.body.details, MissingPath)

-----------------------------------------------------------------------------
(* The supported categories of a locality *)

KeySet(obj) == { obj[i].key : i \in 1..Len(obj) }

SeqSet(seq) == { seq[i] : i \in 1..Len(seq) }

\* the categories a request can name: the thirteen codes and one that is none
CategoryCodes == SeqSet(validCategories) \cup {<<"U", "1", "0">>}

\* the keys of the locality's template table, and of its overlay table
TemplateCategories(loc) == KeySet(Get(LOCALITY_TEMPLATES, loc))

OverlayCategories(loc) == KeySet(Get(OVERLAY_CONFIGS, loc))

\* the categories the validator accepts for the locality, in a request that
\* is complete and well-formed otherwise
ValidatorCategories(loc) ==
    { cat \in CategoryCodes :
        validateFormData(FormData(<<"A">>, <<"C">>, GoodDate, GoodHour,
                                  <<"T">>, <<"V">>, cat, loc)) = Null }

\* the list the health route reports for the locality
ReportedCategories(loc) == SeqSet(Get(response.body.supported_by_locality, loc))

\* the template paths of the locality, by its template table
RegisteredPaths(loc) ==
    { <<"/reports/">> \o loc \o <<"/">> \o e.value :
        e \in SeqSet(Get(LOCALITY_TEMPLATES, loc)) }

\* the template paths the status computation has fetched, and those of
\* them that lie under the locality's directory
FetchedTemplates == SeqSet(req[1].fetched) \ {fontPath}

FetchedUnder(loc) ==
    { path \in FetchedTemplates :
        /\ Len(path) >= Len(loc) + 2
        /\ SubSeq(path, 1, Len(loc) + 2) = <<"/reports/">> \o loc \o <<"/">> }

\* the paths the locality has a baseline hash for
BaselinePaths(loc) == KeySet(Get(KNOWN_GOOD_HASHES.templates, loc))

\* C21: for each supported locality the supported categories are one set
\* everywhere: the keys of its template table, the keys of its overlay
\* table, the categories the validator accepts for it, the list the health
\* route reports for it, and the categories whose template path the status
\* reporter fetches and has a baseline hash for.
C21_OneCategorySet ==
    \A loc \in SeqSet(SUPPORTED_LOCALITIES) :
        /\ TemplateCategories(loc) = OverlayCategories(loc)
        /\ TemplateCategories(loc) = ValidatorCategories(loc)
        /\ (Answered /\ AnswerKind = "health") =>
              ReportedCategories(loc) = TemplateCategories(loc)
        /\ (pc = "status" /\ req[1].fetched # <<>>) =>
              /\ FetchedUnder(loc) = RegisteredPaths(loc)
              /\ BaselinePaths(loc) = RegisteredPaths(loc)
              /\ Cardinality(RegisteredPaths(loc))
                    = Cardinality(TemplateCategories(loc))
              /\ FetchedTemplates
                    = UNION { FetchedUnder(l) : l \in SeqSet(SUPPORTED_LOCALITIES) }

\* the health route has reported the twelve categories of frf, U12 among them
C21_Witness ==
    /\ Answered
    /\ AnswerKind = "health"
    /\ Cardinality(ReportedCategories(frf)) = 12
    /\ U12 \in ReportedCategories(frf)
    /\ U9 \notin ReportedCategories(frf)

-----------------------------------------------------------------------------
(* Overlays for pages the document does not have *)

\* applyOverlays is past its draw loop and its save()
DrawStepTaken == doc.font = "ok" /\ pc \notin {"embedFont", "draw"}

\* the overlays of the request addressed to a page the document lacks
Beyond == { i \in 1..Len(doc.overlays) : doc.overlays[i].page >= doc.pages }

\* the drawText calls made for overlay i
CallsFor(i) ==
    { j \in 1..Len(doc.drawn) :
        /\ doc.drawn[j].x = doc.overlays[i].x
        /\ doc.drawn[j].y = doc.overlays[i].y
        /\ doc.drawn[j].page = doc.overlays[i].page
        /\ doc.drawn[j].text = doc.overlays[i].text }

\* C22: overlays whose page index is at or beyond the page count of the
\* loaded document are skipped without an error: generation completes and
\* returns the serialized document, and every overlay addressed to a page
\* that exists is drawn.
C22_BeyondSkipped ==
    DrawStepTaken =>
        /\ thrown = None
        /\ doc.saved = "pdf"
        /\ \A i \in Beyond : CallsFor(i) = {}
        /\ \A i \in (1..Len(doc.overlays)) \ Beyond :
              ~Blank(doc.overlays[i].text) => Cardinality(CallsFor(i)) = 1
        /\ response # NoResponse =>
              /\ response.status = 200
              /\ response.body = doc

\* a long-form report on a one-page document: the overlays of pages 4, 5
\* and 6 are skipped, those of page 0 are drawn, the answer is the 200
C22_Witness ==
    /\ DrawStepTaken
    /\ doc.pages = 1
    /\ {doc.overlays[i].page : i \in Beyond} = {4, 5, 6}
    /\ Len(doc.drawn) > 0
    /\ \A j \in 1..Len(doc.drawn) : doc.drawn[j].page = 0
    /\ response # NoResponse
    /\ response.status = 200

-----------------------------------------------------------------------------
(* The fetches of a status computation *)

\* a fetch that threw, or whose response was not ok
FetchFailed(c) == c \in {"error", "missing"}

\* the template fetches of the computation have all settled
TemplatesSettled == req[1].templateOutcomes # <<>>

\* the computation has classified: it has a snapshot
Classified == req[1].result # NullStatus

\* C23: a failing or non-ok fetch of one template does not abort the
\* others: whatever fetches fail or throw, the computation completes, the
\* templates list holds exactly one entry for every registered template
\* path (exists = false with an error for the failed ones, exists = true
\* with size and digest for the others), and the classification is made
\* only after all fetches have completed.
C23_EveryTemplateReported ==
    /\ TemplatesSettled =>
          LET statuses == IF Classified THEN req[1].result.templates
                          ELSE req[1].templateStatuses
              outcomes == req[1].templateOutcomes
          IN  /\ Len(statuses) = Len(templatePaths)
              /\ Len(outcomes) = Len(templatePaths)
              /\ \A i \in 1..Len(templatePaths) :
                    /\ statuses[i].path = templatePaths[i]
                    /\ IF FetchFailed(outcomes[i])
                       THEN /\ ~statuses[i].exists
                            /\ statuses[i].error # Undefined
                            /\ statuses[i].hash = Undefined
                       ELSE /\ statuses[i].exists
                            /\ statuses[i].error = Undefined
                            /\ statuses[i].size # Undefined
                            /\ statuses[i].hash # Undefined
    /\ Classified =>
          /\ TemplatesSettled
          /\ req[1].fontOutcome # "none"
          /\ req[1].pc = "done"
          /\ req[1].http \in {200, 503}

\* the fetch of the third template threw and the others went well: the
\* snapshot has sixteen entries, the third with an error, the fourth with
\* its digest
C23_Witness ==
    /\ Classified
    /\ req[1].templateOutcomes[3] = "error"
    /\ Len(req[1].result.templates) = 16
    /\ ~req[1].result.templates[3].exists
    /\ req[1].result.templates[4].exists
    /\ req[1].result.templates[4].hash # Undefined

\* C24: the status reporter fetches every registered template and the font
\* concurrently: the font fetch is issued without waiting for any template
\* fetch to complete, so whenever the template fetches are under way the
\* font fetch has been issued too.
C24_FontFetchedWithTemplates ==
    \A r \in Reqs :
        req[r].pc = "fetchTemplates" => Includes(req[r].fetched, fontPath)

-----------------------------------------------------------------------------
(* Overlapping status computations *)

\* request r is a computation that has completed (not an answer from the
\* cache)
Completed(r) == req[r].pc = "done" /\ req[r].templateOutcomes # <<>>

\* no computation is under way, and every request on record is one
AllCompleted ==
    /\ \A r \in DOMAIN req : req[r].pc = "idle" \/ Completed(r)
    /\ \E r \in DOMAIN req : Completed(r)

\* C25: no locking is needed for the status cache: when status
\* computations overlap at their awaits no update is lost; lastStatusCheck
\* never decreases, and once all of them have completed the cache holds the
\* snapshot and the refresh time of the computation that started last,
\* never those of one that started earlier and finished later.
C25_NoLostUpdate ==
    /\ [][lastStatusCheck' >= lastStatusCheck]_vars
    /\ [](AllCompleted =>
            \A r \in DOMAIN req :
                Completed(r) =>
                    /\ req[r].now <= lastStatusCheck
                    /\ (\A q \in DOMAIN req \ {r} :
                           Completed(q) => req[q].now < req[r].now)
                          => cachedSystemStatus = req[r].result)

-----------------------------------------------------------------------------
(* The fetches of a report generation *)

\* the validator has refused the request
Refused == validationError \notin {Null, NotRun}

\* the template was fetched and the document loaded from it
TemplateLoaded == doc.template \in {"ok", "modified"} /\ doc.pages > 0

\* C26: report generation never retries and never fetches needlessly: a
\* request that fails validation issues no asset fetch; a validated request
\* issues at most one template fetch and at most one font fetch, the font
\* fetch only after the template fetch succeeded and the template was
\* loaded; after the first failing step no further fetch is issued and the
\* failure is returned at once as the 500.
C26_NoRetry ==
    /\ [](/\ Refused => fetches = <<>>
          /\ Len(fetches) <= 2
          /\ Len(fetches) >= 1 => fetches[1] = doc.path /\ doc.path # fontPath
          /\ Len(fetches) = 2 => fetches[2] = fontPath /\ TemplateLoaded
          /\ (thrown # None /\ ~TemplateLoaded) => Len(fetches) <= 1)
    /\ [][/\ thrown # None => (fetches' = fetches /\ thrown' = thrown)
          /\ pc = "failed" => (pc' = "done" /\ response'.status = 500)]_vars

\* the template was missing: the answer is the 500 after one fetch, the font
\* was never asked for
C26_Witness ==
    /\ response # NoResponse
    /\ response.status = 500
    /\ validationError = Null
    /\ doc.template = "missing"
    /\ Len(fetches) = 1
    /\ ~Includes(fetches, fontPath)

-----------------------------------------------------------------------------
(* The shape of a snapshot *)

\* the snapshots getSystemStatus has stored or returned
Snapshots == ({cachedSystemStatus} \cup {req[r].result : r \in Reqs}) \ {NullStatus}

\* every template and the font exist, and no digest was found to differ
AssetsSound(snap) ==
    /\ \A i \in 1..Len(snap.templates) :
          snap.templates[i].exists /\ snap.templates[i].hashValid # "false"
    /\ Len(snap.templates) = Len(templatePaths)
    /\ snap.font.exists
    /\ snap.font.hashValid # "false"

\* the snapshot lists the issue
HasIssue(snap, issue) ==
    snap.issues # Undefined /\ \E i \in 1..Len(snap.issues) : snap.issues[i] = issue

\* C27: every snapshot getSystemStatus stores or returns is one of three
\* shapes: 'healthy' with every asset existing, no digest invalid, the
\* autotest present and passed, and no issues; 'degraded' with every asset
\* existing, no digest invalid, the autotest present and failed, and the
\* issue 'Autotest failed'; 'unhealthy' with no autotest and the issue
\* 'Autotest skipped due to missing or invalid files'.
C27_SnapshotShape ==
    \A snap \in Snapshots :
        /\ snap.status \in {"healthy", "degraded", "unhealthy"}
        /\ snap.status = "healthy" =>
              /\ AssetsSound(snap)
              /\ snap.autotest # NoAutotest
              /\ snap.autotest.passed
              /\ snap.issues = Undefined
        /\ snap.status = "degraded" =>
              /\ AssetsSound(snap)
              /\ snap.autotest # NoAutotest
              /\ ~snap.autotest.passed
              /\ HasIssue(snap, <<"Autotest failed">>)
        /\ snap.status = "unhealthy" =>
              /\ snap.autotest = NoAutotest
              /\ HasIssue(snap, <<"Autotest skipped due to missing or invalid files">>)

\* a degraded snapshot is stored and returned: the assets are sound, a canned
\* generation failed, and 'Autotest failed' is its only issue
C27_Witness ==
    /\ cachedSystemStatus # NullStatus
    /\ cachedSystemStatus.status = "degraded"
    /\ req[1].result = cachedSystemStatus
    /\ cachedSystemStatus.issues = << <<"Autotest failed">> >>
    /\ cachedSystemStatus.autotest.errors # Undefined

-----------------------------------------------------------------------------
(* Caching of snapshots that are not healthy *)

\* request r is answered from the cache in this step
ServedFromCache(r) == Arrives(r) /\ req'[r].pc = "done"

\* request r starts a computation in this step
StartsComputation(r) == Arrives(r) /\ req'[r].pc = "fetchTemplates"

\* a snapshot is cached and its time to live has not run out
CacheUnexpired == cachedSystemStatus # NullStatus /\ clock - lastStatusCheck < 60000

\* C28: snapshots are cached whatever their classification: a computation
\* that completes stores its snapshot, 'unhealthy' and 'degraded' included;
\* a request without forceRefresh that arrives while such a snapshot is
\* cached and unexpired returns that snapshot with 503 and fetches nothing,
\* whatever the assets would answer now; the cached value changes only when
\* a computation completes, and a computation is started only by a forced
\* request or by one that finds no unexpired snapshot.
C28_UnhealthyCached ==
    [][ /\ \A r \in Reqs :
            /\ Computed(r) =>
                  /\ cachedSystemStatus' = req'[r].result
                  /\ req'[r].result.status \in {"healthy", "degraded", "unhealthy"}
            /\ ( /\ Arrives(r)
                 /\ ~req'[r].forceRefresh
                 /\ CacheUnexpired
                 /\ cachedSystemStatus.status \in {"degraded", "unhealthy"} )
               =>
                 /\ ServedFromCache(r)
                 /\ req'[r].result = cachedSystemStatus
                 /\ req'[r].http = 503
                 /\ req'[r].fetched = <<>>
                 /\ cachedSystemStatus' = cachedSystemStatus
                 /\ lastStatusCheck' = lastStatusCheck
            /\ StartsComputation(r) => (req'[r].forceRefresh \/ ~CacheUnexpired)
        /\ cachedSystemStatus' # cachedSystemStatus => \E r \in Reqs : Computed(r)
      ]_vars

\* an unhealthy snapshot was returned from the cache, with 503 and without a
\* fetch, 30000 ms after the computation that produced it began
C28_Witness ==
    \E r \in Reqs :
        /\ req[r].pc = "done"
        /\ ~req[r].forceRefresh
        /\ req[r].fetched = <<>>
        /\ req[r].result # NullStatus
        /\ req[r].result = cachedSystemStatus
        /\ req[r].result.status = "unhealthy"
        /\ req[r].http = 503
        /\ req[r].now - lastStatusCheck = 30000

-----------------------------------------------------------------------------
(* The age of the cache *)

\* the time the computation of the cached snapshot took: from the clock
\* value read on entry to the completion the snapshot is stamped with
CachedComputationTook == cachedSystemStatus.timestamp - lastStatusCheck

-----------------------------------------------------------------------------
(* The origins that are echoed *)

\* an https:// origin whose host is a name below the domain ('.domain' is
\* the suffix)
HttpsSubdomain(o, suffix) ==
    /\ Len(o) > Len(HttpsScheme) + Len(suffix)
    /\ SubSeq(o, 1, Len(HttpsScheme)) = HttpsScheme
    /\ SubSeq(o, Len(o) - Len(suffix) + 1, Len(o)) = suffix

\* the origins the claim lets be echoed: the four entries of the list, the
\* apex of the site, and the https subdomains of the Pages project and of
\* the site
PermittedOrigin(o) ==
    \/ o \in {PagesProject, ReportsSite, LocalDev, WranglerDev}
    \/ o = SiteApex
    \/ HttpsSubdomain(o, PagesPreviewSuffix)
    \/ HttpsSubdomain(o, SiteSuffix)

\* C30: an Origin is echoed in Access-Control-Allow-Origin only if it is
\* one of the four entries of the allow-list, or https://cristeavictor.xyz,
\* or an https:// origin that is a subdomain of ref-tool-frontend.pages.dev
\* or of cristeavictor.xyz; no http:// origin but the two localhost entries
\* and no origin of a host outside the two domains is echoed.
C30_OnlyPermittedEchoed ==
    (Answered /\ HasKey(AnswerHeaders, "Access-Control-Allow-Origin")) =>
        /\ PermittedOrigin(Get(AnswerHeaders, "Access-Control-Allow-Origin"))
        /\ StartsWith(Get(AnswerHeaders, "Access-Control-Allow-Origin"), HttpsScheme)
              \/ Get(AnswerHeaders, "Access-Control-Allow-Origin")
                    \in {LocalDev, WranglerDev}

====
